---- MODULE Spec2Model ----
(***************************************************************************)
(* Model of the anki-mcp-server bridging layer:                            *)
(*   - AnkiClient (src/src/utils.ts): executeWithRetry, normalizeError,    *)
(*     wrapError and the public operations built on them;                  *)
(*   - McpResourceHandler (src/src/mcpResource.ts): the schema cache;      *)
(*   - AnkiMcpServer (src/unnamed/part_003): the per-request probe.        *)
(*                                                                         *)
(* A message is a sequence of text fragments; String.includes(sig) is      *)
(* "sig is one of the fragments".  An error object is a record             *)
(* [isError, name, code, message]; a thrown value that is no Error has     *)
(* isError = FALSE and message = its String() form.                        *)
(***************************************************************************)
EXTENDS Integers, Sequences, FiniteSets, TLC

\* ------------------------------------------------------------------ bounds
\* Largest retry budget handed to executeWithRetry directly.
MaxBudget == 2
\* Number of client operations in one run of the retry specification.
MaxOps == 2
\* Longest raw failure message, in fragments.
MaxMsgLen == 2
\* Client operations in flight together.
MaxInFlight == 3
\* Notes the mock remote is asked to add in one run.
MaxNotes == 2

\* ------------------------------------------------------- program constants
\* DEFAULT_CONFIG.retryTimeout
DefaultRetryTimeout == 10000
\* executeWithRetry(operation, maxRetries = 1)
DefaultMaxRetries == 1
\* base of the backoff: 1000 * 2^attempt
BackoffBase == 1000

\* Retry-timeout ceilings a client may be constructed with
\* (constructor(config: Partial<AnkiConfig>)).
RetryTimeouts == {500, 1500, DefaultRetryTimeout}

\* ---------------------------------------------------------------- messages
SigRefused == "ECONNREFUSED"
SigTimeout == "timeout"
SigEtimedout == "ETIMEDOUT"
SigCollection == "collection unavailable"
OtherText == "Deck already exists"

Fragments == {SigRefused, SigTimeout, SigEtimedout, SigCollection, OtherText}

Messages == UNION {[1..n -> Fragments] : n \in 0..MaxMsgLen}

\* String.prototype.includes on a message
Includes(message, sig) == \E i \in DOMAIN message : message[i] = sig

MsgNotRunning ==
    <<"Anki is not running. Please start Anki and ensure AnkiConnect plugin is enabled.">>
MsgTimedOut ==
    <<"Connection to Anki timed out. Please check if Anki is responsive.">>
MsgUnavailable ==
    <<"Anki collection is unavailable. Please close any open dialogs in Anki.">>
MsgUnknown == <<"Unknown error occurred">>
AnkiErrorPrefix == "Anki error: "

NoCode == "none"

\* new Error(message) and its subclasses
MkError(name, message) ==
    [isError |-> TRUE, name |-> name, code |-> NoCode, message |-> message]

AnkiConnectionError(message) == MkError("AnkiConnectionError", message)
AnkiTimeoutError(message) == MkError("AnkiTimeoutError", message)
AnkiApiError(message) == MkError("AnkiApiError", message)

\* new McpError(code, message)
McpError(code, message) ==
    [isError |-> TRUE, name |-> "McpError", code |-> code, message |-> message]

\* a thrown value that is not an Error (e.g. a thrown string)
Thrown(text) ==
    [isError |-> FALSE, name |-> "string", code |-> NoCode, message |-> text]

\* Every raw failure an attempt may end with.
RawFailures ==
    {MkError("Error", m) : m \in Messages} \cup {Thrown(m) : m \in Messages}

\* normalizeError with the timeout test placed before the connection test.
M_normalizeError_TimeoutFirst(error) ==
    IF error.isError
    THEN IF Includes(error.message, SigTimeout)
            \/ Includes(error.message, SigEtimedout)
         THEN AnkiTimeoutError(MsgTimedOut)
         ELSE IF Includes(error.message, SigRefused)
              THEN AnkiConnectionError(MsgNotRunning)
              ELSE IF Includes(error.message, SigCollection)
                   THEN AnkiApiError(MsgUnavailable)
                   ELSE error
    ELSE MkError("Error", error.message)

\* ------------------------------------------------- AnkiClient.normalizeError
normalizeError(error) ==
    IF error.isError
    THEN IF Includes(error.message, SigRefused)
         THEN AnkiConnectionError(MsgNotRunning)
         ELSE IF Includes(error.message, SigTimeout)
                 \/ Includes(error.message, SigEtimedout)
              THEN AnkiTimeoutError(MsgTimedOut)
              ELSE IF Includes(error.message, SigCollection)
                   THEN AnkiApiError(MsgUnavailable)
                   ELSE error
    ELSE MkError("Error", error.message)

\* ------------------------------------------------------ AnkiClient.wrapError
wrapError(error) ==
    IF error.name = "AnkiConnectionError"
    THEN McpError("InternalError", error.message)
    ELSE IF error.name = "AnkiTimeoutError"
         THEN McpError("InternalError", error.message)
         ELSE IF error.name = "AnkiApiError"
              THEN McpError("InternalError", error.message)
              ELSE McpError("InternalError", <<AnkiErrorPrefix>> \o error.message)

\* the catch clause of every public operation:
\*   throw this.wrapError(error instanceof Error ? error : new Error(String(error)))
CatchAndWrap(error) ==
    wrapError(IF error.isError THEN error ELSE MkError("Error", error.message))

\* ------------------------------------------------------------------ backoff
RECURSIVE Pow2(_)
Pow2(n) == IF n = 0 THEN 1 ELSE 2 * Pow2(n - 1)

Min(a, b) == IF a < b THEN a ELSE b

\* the backoff with 2 * attempt written for Math.pow(2, attempt)
M_BackoffDelay_Linear(attempt, ceiling) == Min(BackoffBase * (2 * attempt), ceiling)

\* const delay = Math.min(1000 * Math.pow(2, attempt), this.config.retryTimeout)
BackoffDelay(attempt, ceiling) == Min(BackoffBase * Pow2(attempt), ceiling)


\* ------------------------------------------------------------------- state
VARIABLES
    retryTimeout,   \* AnkiClient.config.retryTimeout
    call,           \* the client operation in progress (one executeWithRetry frame)
    opsStarted,     \* history: operations issued so far
    totalAttempts,  \* history: attempts issued so far, over all operations
    totalFailures,  \* history: attempts that failed so far, over all operations
    thrownValue,    \* normalizeError: the value caught (its argument)
    normalized,     \* normalizeError: the error it returned, NoError before the call
    clock,          \* Date.now()
    ticks,          \* history: how often the clock has advanced
    remoteRev,      \* the remote: revision of its note types (fields, templates, css)
    remoteNames,    \* the remote: its note types, in the order modelNames lists them
    modelSchemaCache,      \* McpResourceHandler.modelSchemaCache
    allModelSchemasCache,  \* McpResourceHandler.allModelSchemasCache
    lastCacheUpdate,       \* McpResourceHandler.lastCacheUpdate
    task,           \* the cache call in progress: getModelSchema / getAllModelSchemas
    frames,         \* getModelSchema activations: "top" and one per note type
    request,        \* AnkiMcpServer: the protocol request being handled
    requests,       \* history: requests received so far
    legacy,         \* AnkiServer.invokeAnki: one invocation, with the replies it meets
    tool,           \* McpToolHandler.executeTool: the tool call in progress
    remoteDecks,    \* the remote: its deck names
    remoteNote,     \* the remote: the note the tools update (fields written, tags)
    calls,          \* AnkiClient: the executeWithRetry activations in flight together
    peak,           \* history: the most calls that were in flight together
    mock,           \* MockAnkiConnect: decks, notes, noteTypes, nextNoteId, testDecks
    testResources,  \* testUtils: the decks, note ids and note types the tests track
    mockCall,       \* history: the last operation on the mock or the tracking
    batch,          \* batch_create_notes: the call in progress, in either server
    advert,         \* a note type's createTool: as advertised, and as routed
    search          \* search_notes: the call in progress

clientVars == <<retryTimeout, call, opsStarted, totalAttempts, totalFailures>>
normVars == <<thrownValue, normalized>>
cacheVars == <<clock, ticks, remoteRev, remoteNames, modelSchemaCache, allModelSchemasCache,
               lastCacheUpdate, task, frames>>

adapterVars == <<request, requests>>
legacyVars == <<legacy>>
toolVars == <<tool, remoteDecks, remoteNote>>
concurrentVars == <<calls, peak>>
mockVars == <<mock, testResources, mockCall>>
handlerVars == <<batch, advert, search>>

\* everything but the retry loop's state
notClient == <<normVars, cacheVars, adapterVars, legacyVars, toolVars, concurrentVars, mockVars, handlerVars>>
\* everything but normalizeError's argument and result
notNorm == <<clientVars, cacheVars, adapterVars, legacyVars, toolVars, concurrentVars, mockVars, handlerVars>>
\* everything but the schema cache, its clock and its remote
notCache == <<clientVars, normVars, adapterVars, legacyVars, toolVars, concurrentVars, mockVars, handlerVars>>
\* everything but the adapter's request and the client operation it awaits
notAdapter == <<normVars, cacheVars, legacyVars, toolVars, concurrentVars, mockVars, handlerVars>>
\* everything but the legacy server's invocation
notLegacy == <<clientVars, normVars, cacheVars, adapterVars, toolVars, concurrentVars, mockVars, handlerVars>>
\* everything but the activations in flight together and the shared ceiling
notConcurrent == <<call, opsStarted, totalAttempts, totalFailures, normVars, cacheVars,
                   adapterVars, legacyVars, toolVars, mockVars, handlerVars>>
\* everything but the mock remote and the test tracking
notMock == <<clientVars, normVars, cacheVars, adapterVars, legacyVars, toolVars,
             concurrentVars, handlerVars>>
\* everything but the tool call and the remote's decks
notTools == <<clientVars, normVars, cacheVars, adapterVars, legacyVars, concurrentVars, mockVars, handlerVars>>

\* lastError = null, and "no error" in an outcome
NoError == [isError |-> FALSE, name |-> "null", code |-> NoCode, message |-> <<>>]
\* A payload is a tagged value: an array of strings, a number, a boolean.
Arr(items) == [type |-> "array", items |-> items]
Num(digits) == [type |-> "number", items |-> <<digits>>]
Bool(text) == [type |-> "boolean", items |-> <<text>>]
\* no value (undefined)
NoValue == [type |-> "undefined", items |-> <<>>]

\* Result payloads of the remote: deckNames / modelNames answer with an array
\* of names, createDeck with the deck's numeric id.
Results == {Arr(<<"Default">>), Arr(<<"Default", "Spanish">>), Num("1651445861967")}

\* Public operations of AnkiClient; each runs executeWithRetry with the
\* default budget and wraps what it throws.
PublicOps == {"checkConnection", "getDeckNames", "createDeck", "getModelNames"}

\* Raw failures of one attempt used in the retry specification.
AttemptFailures ==
    { MkError("Error", <<SigRefused>>),
      MkError("Error", <<SigEtimedout>>),
      MkError("Error", <<SigCollection>>),
      MkError("Error", <<OtherText>>),
      Thrown(<<OtherText>>) }

IdleCall ==
    [op |-> "none", wrapped |-> FALSE, pc |-> "idle", maxRetries |-> 0,
     attempt |-> 0, lastError |-> NoError, log |-> <<>>, delays |-> <<>>,
     result |-> NoValue, error |-> NoError]

\* What a public operation does with the value executeWithRetry returns.
\*   checkConnection: return true
\*   createDeck:      return typeof result === "number" ? result : 0
\*   getDeckNames, getModelNames: return it as it is
ReturnValue(op, value) ==
    IF op = "checkConnection" THEN Bool("true")
    ELSE IF op = "createDeck"
         THEN IF value.type = "number" THEN value ELSE Num("0")
         ELSE value

\* What the caller of the frame sees thrown: executeWithRetry's own throw,
\* or the public operation's catch clause applied to it.
Raise(c, error) ==
    [c EXCEPT !.pc = "thrown",
              !.error = IF c.wrapped THEN CatchAndWrap(error) ELSE error]

\* throw lastError || new AnkiConnectionError("Unknown error occurred")
ThrowLast(c) ==
    Raise(c, IF c.lastError # NoError THEN c.lastError
             ELSE AnkiConnectionError(MsgUnknown))

\* the loop test written attempt < maxRetries
M_LoopTest_Strict(c) == c.attempt < c.maxRetries

\* the loop test written attempt <= maxRetries + 1: one attempt too many
M_LoopTest_OneMore(c) == c.attempt <= c.maxRetries + 1

\* the loop test: attempt <= maxRetries
LoopTest(c) == c.attempt <= c.maxRetries

\* the wait test written attempt <= maxRetries: waits after the last attempt too
M_WaitTest_Inclusive(c) == c.attempt <= c.maxRetries

\* the wait test written attempt > maxRetries: never waits
M_WaitTest_Inverted(c) == c.attempt > c.maxRetries

\* the wait test: attempt < maxRetries ("Don't wait on the last attempt")
WaitTest(c) == c.attempt < c.maxRetries

\* for (let attempt = ...; attempt <= maxRetries; ...): the next attempt is
\* issued, or the loop is left and the last error thrown.
EnterLoop(c) ==
    IF LoopTest(c) THEN [c EXCEPT !.pc = "attempt"] ELSE ThrowLast(c)

Attempted(c) == IF c.pc = "attempt" THEN 1 ELSE 0

\* executeWithRetry(operation, maxRetries) runs up to its first await.
Issue(op, wrapped, maxRetries) ==
    /\ call.pc \in {"idle", "returned", "thrown"}
    /\ LET c == EnterLoop([IdleCall EXCEPT !.op = op, !.wrapped = wrapped,
                                           !.maxRetries = maxRetries])
       IN /\ call' = c
          /\ totalAttempts' = totalAttempts + Attempted(c)
    /\ opsStarted' = opsStarted + 1
    /\ UNCHANGED <<retryTimeout, totalFailures>>

\* A caller issues executeWithRetry(operation, maxRetries).
Begin(op, wrapped, maxRetries) ==
    /\ opsStarted < MaxOps
    /\ Issue(op, wrapped, maxRetries)
    /\ UNCHANGED notClient

\* A public operation: executeWithRetry(() => this.client...) with maxRetries = 1.
StartOp(op) == Begin(op, TRUE, DefaultMaxRetries)

\* executeWithRetry itself, for any budget.
StartExecuteWithRetry(maxRetries) == Begin("executeWithRetry", FALSE, maxRetries)

\* "await operation()" without the return: the loop goes on after a success.
M_AttemptSucceeds_NoReturn(value) ==
    /\ call.pc = "attempt"
    /\ LET got == [call EXCEPT
                     !.log = Append(@, [ok |-> TRUE, raw |-> NoError,
                                        value |-> value]),
                     !.attempt = @ + 1]
           next == IF got.attempt <= got.maxRetries
                   THEN [got EXCEPT !.pc = "attempt"]
                   ELSE [got EXCEPT !.pc = "thrown",
                                    !.error = AnkiConnectionError(MsgUnknown)]
       IN /\ call' = next
          /\ totalAttempts' = totalAttempts + (IF next.pc = "attempt" THEN 1 ELSE 0)
    /\ UNCHANGED <<retryTimeout, opsStarted, totalFailures, notClient>>

\* return await operation(): what the loop does when the attempt resolves
\* with value.
Resolves(value) ==
    /\ call.pc = "attempt"
    /\ call' = [call EXCEPT
                  !.pc = "returned",
                  !.log = Append(@, [ok |-> TRUE, raw |-> NoError, value |-> value]),
                  !.result = IF call.wrapped THEN ReturnValue(call.op, value)
                             ELSE value]
    /\ UNCHANGED <<retryTimeout, opsStarted, totalAttempts, totalFailures>>

\* the attempt resolves with value
AttemptSucceeds(value) == Resolves(value) /\ UNCHANGED notClient

\* the first failure of the operation is kept
M_LastError_First(previous, raw) ==
    IF previous # NoError THEN previous ELSE normalizeError(raw)

\* lastError = this.normalizeError(error)
LastError(previous, raw) == normalizeError(raw)

\* catch (error): what the loop does when the attempt rejects with raw.
Rejects(raw) ==
    /\ call.pc = "attempt"
    /\ LET caught == [call EXCEPT
                        !.lastError = LastError(call.lastError, raw),
                        !.log = Append(@, [ok |-> FALSE, raw |-> raw,
                                           value |-> NoValue])]
           next == IF WaitTest(caught)
                   THEN [caught EXCEPT
                           !.pc = "backoff",
                           !.delays = Append(@, BackoffDelay(caught.attempt,
                                                             retryTimeout))]
                   ELSE EnterLoop([caught EXCEPT !.attempt = @ + 1])
       IN /\ call' = next
          /\ totalAttempts' = totalAttempts + Attempted(next)
    /\ totalFailures' = totalFailures + 1
    /\ UNCHANGED <<retryTimeout, opsStarted>>

\* the attempt rejects with raw
AttemptFails(raw) == Rejects(raw) /\ UNCHANGED notClient

\* await new Promise((resolve) => setTimeout(resolve, delay)) settles; attempt++.
BackoffElapsed ==
    /\ call.pc = "backoff"
    /\ LET next == EnterLoop([call EXCEPT !.attempt = @ + 1])
       IN /\ call' = next
          /\ totalAttempts' = totalAttempts + Attempted(next)
    /\ UNCHANGED <<retryTimeout, opsStarted, totalFailures, notClient>>

\* ======================================================================
\* McpResourceHandler: the schema cache (src/src/mcpResource.ts)
\* ======================================================================
\* Clock advances in one run of the cache specification.
MaxTicks == 2
\* Highest revision the remote's note types reach.
MaxRev == 2
\* this.cacheExpiry = 5 * 60 * 1000
cacheExpiry == 5 * 60 * 1000

\* Date.now() when the handler is constructed.  Only differences of clock
\* readings and the stamp 0 matter, and Date.now() lies far more than
\* cacheExpiry after the epoch.
StartTime == 2 * cacheExpiry

\* How far the clock moves between two steps: half the window, so that one
\* advance stays inside the window and two reach its boundary exactly.
ClockSteps == {cacheExpiry \div 2}

\* The note types of the remote when the handler is constructed, in the
\* order modelNames lists them.
RemoteModelNames == <<"Basic", "Cloze">>
\* existingModels.includes(modelName): the names in a list
Names(list) == {list[i] : i \in DOMAIN list}
ModelNameSet == Names(RemoteModelNames)

\* Names a caller asks the cache for.
RequestedNames == ModelNameSet \cup {"Nonexistent", ""}

\* getModelSchema activations: the caller's own, and one per note type for
\* the calls getAllModelSchemas makes.
TopFrame == "top"
FrameIds == {TopFrame} \cup ModelNameSet

\* What a client operation may throw at the cache (wrapError's results).
ClientErrors ==
    { McpError("InternalError", MsgNotRunning),
      McpError("InternalError", MsgUnavailable) }

\* interface ModelSchema: the name and the revision of fields, templates and
\* css read from the remote.  History kept with it: `at`, when it was read;
\* `stamp`, the lastCacheUpdate written with it; `by`, the activation that
\* read it (the caller's own getModelSchema, or one made by getAllModelSchemas).
NoSchema ==
    [modelName |-> "", fields |-> 0, templates |-> 0, css |-> 0,
     at |-> 0, stamp |-> 0, by |-> "none"]
ModelSchema(name, rev, at, stamp, by) ==
    [modelName |-> name, fields |-> rev, templates |-> rev, css |-> rev,
     at |-> at, stamp |-> stamp, by |-> by]

\* allModelSchemasCache: null, or a list
NoSnapshot == [present |-> FALSE, schemas |-> <<>>]
Snapshot(schemas) == [present |-> TRUE, schemas |-> schemas]

IdleFrame ==
    [pc |-> "idle", name |-> "", now |-> 0, stampSeen |-> 0, hit |-> FALSE,
     fetches |-> 0, calls |-> 0, result |-> NoSchema, error |-> NoError]

\* What clearCache() threw away since the last call ended: `fresh`, the
\* names whose entry would have been served at that moment.
NotCleared == [cleared |-> FALSE, fresh |-> {}]

\* History kept with the call: `prior`, the entry stored for the name when
\* the call was issued; `listed`, whether the remote had the name then;
\* `stampSeen`, lastCacheUpdate then; `dropped`, what a clearCache() between
\* the previous call and this one threw away.  `error` is what
\* getModelSchema / getAllModelSchemas throws, `surfaced` what readResource
\* throws in its place; `interrupted`, whether clearCache() ran while the
\* call was suspended.
IdleTask ==
    [op |-> "none", name |-> "", pc |-> "idle", now |-> 0, stampSeen |-> 0,
     prior |-> NoSchema, listed |-> FALSE, names |-> <<>>, hit |-> FALSE,
     result |-> <<>>, error |-> NoError, surfaced |-> NoError,
     dropped |-> NotCleared, interrupted |-> FALSE]

\* the cache test written with <=
M_Fresh_Inclusive(now, stamp) == now - stamp <= cacheExpiry

\* the cache test without the stamp
M_Fresh_Always(now, stamp) == TRUE

\* now - this.lastCacheUpdate < this.cacheExpiry
Fresh(now, stamp) == now - stamp < cacheExpiry

\* this.modelSchemaCache.get(modelName)
CacheGet(name) == modelSchemaCache[name]

\* getModelSchema up to its first await: the name test and the cache test.
EnterGetModelSchema(name) ==
    LET base == [IdleFrame EXCEPT !.name = name, !.now = clock,
                                  !.stampSeen = lastCacheUpdate]
    IN IF name = ""
       THEN [base EXCEPT !.pc = "rejected",
                         !.error = McpError("InvalidParams",
                                            <<"Model name is required">>)]
       ELSE IF CacheGet(name) # NoSchema /\ Fresh(clock, lastCacheUpdate)
            THEN [base EXCEPT !.pc = "resolved", !.hit = TRUE,
                              !.result = CacheGet(name)]
            ELSE [base EXCEPT !.pc = "modelNames", !.calls = 1]

FrameSettled(fr) == fr.pc \in {"idle", "resolved", "rejected"}

TaskFinished == task.pc \in {"returned", "thrown"}

\* No call and no fetch is in flight.
Quiescent ==
    /\ task.pc = "idle"
    /\ \A f \in FrameIds : FrameSettled(frames[f])

\* readResource("anki://note-types/<modelName>"), catch (error) around
\* getModelSchema:
\*   throw new McpError(InvalidParams, `Note type '${modelName}' does not exist`)
NoteTypeDoesNotExist(modelName, error) ==
    McpError("InvalidParams", <<"Note type '", modelName, "' does not exist">>)

\* the outcome of readResource's getModelSchema(name)
TaskOfTopFrame(t, fr) ==
    IF fr.pc = "resolved"
    THEN [t EXCEPT !.pc = "returned", !.hit = fr.hit, !.result = <<fr.result>>]
    ELSE IF fr.pc = "rejected"
         THEN [t EXCEPT !.pc = "thrown", !.error = fr.error,
                        !.surfaced = NoteTypeDoesNotExist(t.name, fr.error)]
         ELSE [t EXCEPT !.pc = "await"]

\* getModelSchema(name) is called and runs up to its first await.
GetSchemaIssued(name) ==
    /\ Quiescent
    /\ LET fr == EnterGetModelSchema(name)
           t == [IdleTask EXCEPT !.op = "getSchema", !.name = name,
                                 !.now = clock, !.stampSeen = lastCacheUpdate,
                                 !.prior = CacheGet(name),
                                 !.dropped = task.dropped,
                                 !.listed = name \in Names(remoteNames)]
       IN /\ frames' = [f \in FrameIds |-> IF f = TopFrame THEN fr ELSE IdleFrame]
          /\ task' = TaskOfTopFrame(t, fr)
    /\ UNCHANGED <<clock, ticks, remoteRev, remoteNames, modelSchemaCache, allModelSchemasCache,
                   lastCacheUpdate>>

\* A caller issues getSchema(name).
StartGetSchema(name) == GetSchemaIssued(name) /\ UNCHANGED notCache

\* the list Promise.all hands to getAllModelSchemas
Gathered(t, fs) == [i \in DOMAIN t.names |-> fs[t.names[i]].result]

\* the list is taken as soon as one per-name call has resolved
M_AllResolved_Any(t, fs) == \E n \in Names(t.names) : fs[n].pc = "resolved"

\* Promise.all resolves: every per-name call has resolved
AllResolved(t, fs) == \A n \in Names(t.names) : fs[n].pc = "resolved"

\* Promise.all over the per-name calls settles: on the first rejection
\* getAllModelSchemas throws; once all have resolved it stores the list,
\* stamps the cache with its own `now` and returns.
\* Gives <<task, allModelSchemasCache, lastCacheUpdate>> after the step, stamp
\* being lastCacheUpdate as the step's getModelSchema left it.
SettleAll(t, fs, rejectedBy, stamp) ==
    IF t.op # "getAllSchemas" \/ t.pc # "gather"
    THEN <<t, allModelSchemasCache, stamp>>
    ELSE IF rejectedBy # NoError
         THEN <<[t EXCEPT !.pc = "thrown", !.error = rejectedBy],
                allModelSchemasCache, stamp>>
         ELSE IF AllResolved(t, fs)
              THEN <<[t EXCEPT !.pc = "returned", !.result = Gathered(t, fs)],
                     Snapshot(Gathered(t, fs)), t.now>>
              ELSE <<t, allModelSchemasCache, stamp>>

\* A getModelSchema activation ends; whoever awaits it goes on.
Continue(f, fr, stamp) ==
    LET fs == [frames EXCEPT ![f] = fr]
    IN /\ frames' = fs
       /\ IF f = TopFrame
          THEN /\ task' = TaskOfTopFrame(task, fr)
               /\ allModelSchemasCache' = allModelSchemasCache
               /\ lastCacheUpdate' = stamp
          ELSE LET out == SettleAll(task, fs, fr.error, stamp)
               IN /\ task' = out[1]
                  /\ allModelSchemasCache' = out[2]
                  /\ lastCacheUpdate' = out[3]

\* the existence test is left out
M_ModelExists_Unchecked(existingModels, modelName) == TRUE

\* existingModels.includes(modelName)
ModelExists(existingModels, modelName) == modelName \in Names(existingModels)

\* throw new McpError(ErrorCode.InvalidParams, `Note type not found: ${modelName}`)
NoteTypeNotFound(modelName) ==
    McpError("InvalidParams", <<"Note type not found: ", modelName>>)

\* const existingModels = await this.ankiClient.getModelNames() settles.
ModelNamesSettles(f, error) ==
    /\ ~TaskFinished
    /\ frames[f].pc = "modelNames"
    /\ LET fr == frames[f]
           next == IF error # NoError
                   THEN [fr EXCEPT !.pc = "rejected", !.error = error]
                   ELSE IF ~ModelExists(remoteNames, fr.name)
                        THEN [fr EXCEPT !.pc = "rejected",
                                        !.error = NoteTypeNotFound(fr.name)]
                        ELSE [fr EXCEPT !.pc = "fanout", !.fetches = 3,
                                        !.calls = @ + 3]
       IN IF next.pc = "fanout"
          THEN /\ frames' = [frames EXCEPT ![f] = next]
               /\ UNCHANGED <<task, allModelSchemasCache, lastCacheUpdate>>
          ELSE Continue(f, next, lastCacheUpdate)
    /\ UNCHANGED <<clock, ticks, remoteRev, remoteNames, modelSchemaCache, notCache>>

\* the entry is stored but the cache keeps its old stamp
M_StampOfWrite_Kept(now) == lastCacheUpdate

\* this.lastCacheUpdate = now, `now` being the reading getModelSchema took
\* before its cache test
StampOfWrite(now) == now

\* this.modelSchemaCache.set(modelName, modelSchema)
StoreSchema(name, schema) == [modelSchemaCache EXCEPT ![name] = schema]

\* the cache is updated whether or not the three fetches succeeded
M_AllFetched_Ignored(error) == TRUE

\* Promise.all resolved: the statements after the await run
AllFetched(error) == error = NoError

\* await Promise.all([getModelFieldNames, getModelTemplates, getModelStyling])
\* settles: with the three results, or with the error of the fetch that failed.
FanoutSettles(f, error) ==
    /\ ~TaskFinished
    /\ frames[f].pc = "fanout"
    /\ LET fr == frames[f]
           modelSchema == ModelSchema(fr.name, remoteRev, clock, fr.now,
                                      IF f = TopFrame THEN "getSchema"
                                      ELSE "getAllSchemas")
           ended == IF error # NoError
                    THEN [fr EXCEPT !.pc = "rejected", !.error = error]
                    ELSE [fr EXCEPT !.pc = "resolved", !.result = modelSchema]
       IN IF AllFetched(error)
          THEN /\ modelSchemaCache' = StoreSchema(fr.name, modelSchema)
               /\ Continue(f, ended, StampOfWrite(fr.now))
          ELSE /\ modelSchemaCache' = modelSchemaCache
               /\ Continue(f, ended, lastCacheUpdate)
    /\ UNCHANGED <<clock, ticks, remoteRev, remoteNames, notCache>>

\* A caller issues getAllSchemas().
StartGetAll ==
    /\ Quiescent
    /\ LET t == [IdleTask EXCEPT !.op = "getAllSchemas", !.now = clock,
                                 !.stampSeen = lastCacheUpdate,
                                 !.dropped = task.dropped]
       IN task' = IF allModelSchemasCache.present /\ Fresh(clock, lastCacheUpdate)
                  THEN [t EXCEPT !.pc = "returned", !.hit = TRUE,
                                 !.result = allModelSchemasCache.schemas]
                  ELSE [t EXCEPT !.pc = "allNames"]
    /\ frames' = [f \in FrameIds |-> IdleFrame]
    /\ UNCHANGED <<clock, ticks, remoteRev, remoteNames, modelSchemaCache, allModelSchemasCache,
                   lastCacheUpdate, notCache>>

\* const modelNames = await this.ankiClient.getModelNames() settles in
\* getAllModelSchemas; modelNames.map(getModelSchema) runs each call up to
\* its first await.
AllNamesSettles(error) ==
    /\ task.op = "getAllSchemas" /\ task.pc = "allNames"
    /\ IF error # NoError
       THEN /\ task' = [task EXCEPT !.pc = "thrown", !.error = error]
            /\ UNCHANGED <<frames, allModelSchemasCache, lastCacheUpdate>>
       ELSE LET fs == [f \in FrameIds |->
                          IF f \in Names(remoteNames) THEN EnterGetModelSchema(f)
                          ELSE IdleFrame]
                out == SettleAll([task EXCEPT !.pc = "gather",
                                              !.names = remoteNames],
                                 fs, NoError, lastCacheUpdate)
            IN /\ frames' = fs
               /\ task' = out[1]
               /\ allModelSchemasCache' = out[2]
               /\ lastCacheUpdate' = out[3]
    /\ UNCHANGED <<clock, ticks, remoteRev, remoteNames, modelSchemaCache, notCache>>

\* new Map(): the map without any entry
EmptyMap == [n \in RequestedNames |-> NoSchema]

\* the map is left as it is
M_MapClear_Kept(map) == map

\* this.modelSchemaCache.clear()
MapClear(map) == [n \in DOMAIN map |-> NoSchema]

\* clearCache()
ClearCacheNow ==
    /\ modelSchemaCache' = MapClear(modelSchemaCache)
    /\ allModelSchemasCache' = NoSnapshot
    /\ lastCacheUpdate' = 0
    /\ task' = IF task.pc = "idle"
               THEN [task EXCEPT !.dropped =
                       [cleared |-> TRUE,
                        fresh |-> @.fresh \cup
                                  {n \in RequestedNames :
                                      /\ CacheGet(n) # NoSchema
                                      /\ clock - lastCacheUpdate < cacheExpiry}]]
               ELSE [task EXCEPT !.interrupted = TRUE]
    /\ UNCHANGED <<clock, ticks, remoteRev, remoteNames, frames, notCache>>

\* clearCache() called between two calls
ClearCache == Quiescent /\ ClearCacheNow

\* clearCache() called while a call is suspended on the remote
ClearCacheInFlight == task.pc \notin {"idle", "returned", "thrown"} /\ ClearCacheNow

\* The promise of the finished call settles and its caller takes the outcome,
\* before the reply to any other request arrives (promise continuations run
\* ahead of the next I/O event); activations nobody awaits any more stay as
\* they are.
Deliver ==
    /\ TaskFinished
    /\ task' = IF task.interrupted
               THEN [IdleTask EXCEPT !.dropped = [cleared |-> TRUE, fresh |-> {}]]
               ELSE IdleTask
    /\ frames' = [f \in FrameIds |->
                     IF FrameSettled(frames[f]) THEN IdleFrame ELSE frames[f]]
    /\ UNCHANGED <<clock, ticks, remoteRev, remoteNames, modelSchemaCache, allModelSchemasCache,
                   lastCacheUpdate, notCache>>

\* Time passes (the caller of a finished call resumes at once).
Tick(d) ==
    /\ ~TaskFinished
    /\ ticks < MaxTicks
    /\ clock' = clock + d
    /\ ticks' = ticks + 1
    /\ UNCHANGED <<remoteRev, remoteNames, modelSchemaCache, allModelSchemasCache,
                   lastCacheUpdate, task, frames, notCache>>

\* The user edits a note type in Anki.
RemoteEdit ==
    /\ ~TaskFinished
    /\ remoteRev < MaxRev
    /\ remoteRev' = remoteRev + 1
    /\ UNCHANGED <<clock, ticks, remoteNames, modelSchemaCache, allModelSchemasCache,
                   lastCacheUpdate, task, frames, notCache>>

\* The user deletes a note type in Anki.
RemoteDelete(name) ==
    /\ ~TaskFinished
    /\ name \in Names(remoteNames)
    /\ remoteNames' = SelectSeq(remoteNames, LAMBDA n : n # name)
    /\ UNCHANGED <<clock, ticks, remoteRev, modelSchemaCache, allModelSchemasCache,
                   lastCacheUpdate, task, frames, notCache>>

\* The handler as constructed.
CacheIdle ==
    /\ clock = StartTime
    /\ ticks = 0
    /\ remoteRev = 1
    /\ remoteNames = RemoteModelNames
    /\ modelSchemaCache = EmptyMap
    /\ allModelSchemasCache = NoSnapshot
    /\ lastCacheUpdate = 0
    /\ task = IdleTask
    /\ frames = [f \in FrameIds |-> IdleFrame]

\* ======================================================================
\* AnkiMcpServer: the protocol adapter (src/unnamed/part_003), with the
\* handlers it dispatches to (src/src/mcpResource.ts, src/unnamed/part_004)
\* ======================================================================
\* Requests received in one run of the adapter specification.
MaxRequests == 2

\* request.params.uri of the ReadResource requests sent
ResourceUris == {"anki://decks/all", "anki://note-types/all", "anki://unknown"}
\* request.params.name of the CallTool requests sent
ToolNames == {"list_decks", "list_note_types", "no_such_tool"}

\* The requests the server has a handler for (setupHandlers).
RequestKinds ==
    {"ListResources", "ListResourceTemplates", "ReadResource", "ListTools",
     "CallTool"}

\* What a requester may send: a kind with its parameter.
Requests ==
    { [kind |-> k, target |-> ""] :
         k \in {"ListResources", "ListResourceTemplates", "ListTools"} }
    \cup { [kind |-> "ReadResource", target |-> u] : u \in ResourceUris }
    \cup { [kind |-> "CallTool", target |-> t] : t \in ToolNames }

MsgFailedToConnect ==
    <<"Failed to connect to Anki. Please make sure Anki is running and the AnkiConnect plugin is enabled.">>

\* A remote operation started for the request, and who started it.
RemoteCall(by, op) == [by |-> by, op |-> op]

\* History kept with the request: `remote`, the client operations started
\* for it, in order; `probe`, how the adapter's probe ended; `probeAttempts`,
\* the attempts it took; `dispatched`, whether the handler was invoked.
IdleRequest ==
    [kind |-> "none", target |-> "", pc |-> "idle", remote |-> <<>>,
     probe |-> "none", probeAttempts |-> 0, dispatched |-> FALSE,
     result |-> NoValue, error |-> NoError]

CallSettled == call.pc \in {"returned", "thrown"}

RequestFinished == request.pc \in {"idle", "replied", "failed"}

\* the probe's rejection is swallowed: the handler body goes on regardless
M_ProbePassed_Always(c) == TRUE

\* the probe's outcome is looked at for the first request only
M_ProbePassed_Remembered(c) == c.pc = "returned" \/ requests > 1

\* AnkiMcpServer.checkConnection: await this.ankiClient.checkConnection()
\* resolved, so nothing is thrown
ProbePassed(c) == c.pc = "returned"

\* The request ends with a reply / with an error; no client operation starts.
Reply(r, value) ==
    /\ request' = [r EXCEPT !.pc = "replied", !.result = value]
    /\ UNCHANGED clientVars

Fail(r, error) ==
    /\ request' = [r EXCEPT !.pc = "failed", !.error = error]
    /\ UNCHANGED clientVars

\* The request goes on with a client operation and waits for it.
Await(r, by, op, pc) ==
    /\ Issue(op, TRUE, DefaultMaxRetries)
    /\ request' = [r EXCEPT !.pc = pc, !.remote = Append(@, RemoteCall(by, op))]

\* A request arrives; its handler starts with await this.checkConnection().
Receive(req) ==
    /\ RequestFinished
    /\ requests < MaxRequests
    /\ Await([IdleRequest EXCEPT !.kind = req.kind, !.target = req.target],
             "adapter", "checkConnection", "probe")
    /\ requests' = requests + 1
    /\ UNCHANGED notAdapter

\* this.toolHandler.getToolSchema(): the fixed list, no remote call.
\* The other handlers start with await this.ankiClient.checkConnection().
Dispatch(r) ==
    LET invoked == [r EXCEPT !.dispatched = TRUE]
    IN IF r.kind = "ListTools"
       THEN Reply(invoked, Arr(<<"tools">>))
       ELSE Await(invoked, "handler", "checkConnection", "handlerProbe")

\* await this.checkConnection() settles in the adapter's handler: the
\* handler of the request is invoked, or McpError(InternalError, "Failed to
\* connect to Anki. ...") is thrown.
ProbeSettles ==
    /\ request.pc = "probe"
    /\ CallSettled
    /\ LET r == [request EXCEPT
                   !.probe = IF call.pc = "returned" THEN "ok" ELSE "failed",
                   !.probeAttempts = Len(call.log)]
       IN IF ProbePassed(call)
          THEN Dispatch(r)
          ELSE Fail(r, McpError("InternalError", MsgFailedToConnect))
    /\ UNCHANGED <<requests, notAdapter>>

\* The handler after its own probe.
\*   listResources, listResourceTemplates: the fixed lists
\*   readResource(uri): getDeckNames / getModelNames, or "Unknown resource"
\*   executeTool(name): listDecks / listNoteTypes, or "Unknown tool"
HandlerBody(r) ==
    IF r.kind = "ListResources" THEN Reply(r, Arr(<<"resources">>))
    ELSE IF r.kind = "ListResourceTemplates"
    THEN Reply(r, Arr(<<"resourceTemplates">>))
    ELSE IF r.target \in {"anki://decks/all", "list_decks"}
    THEN Await(r, "handler", "getDeckNames", "handlerCall")
    ELSE IF r.target \in {"anki://note-types/all", "list_note_types"}
    THEN Await(r, "handler", "getModelNames", "handlerCall")
    ELSE IF r.kind = "ReadResource"
    THEN Fail(r, McpError("InvalidParams", <<"Unknown resource: ", r.target>>))
    ELSE Fail(r, McpError("MethodNotFound", <<"Unknown tool: ", r.target>>))

\* await this.ankiClient.checkConnection() settles in the handler.
HandlerProbeSettles ==
    /\ request.pc = "handlerProbe"
    /\ CallSettled
    /\ IF call.pc = "thrown" THEN Fail(request, call.error)
       ELSE HandlerBody(request)
    /\ UNCHANGED <<requests, notAdapter>>

\* The handler's remote call settles and the request is answered.
HandlerCallSettles ==
    /\ request.pc = "handlerCall"
    /\ CallSettled
    /\ IF call.pc = "thrown" THEN Fail(request, call.error)
       ELSE Reply(request, call.result)
    /\ UNCHANGED <<requests, notAdapter>>

\* ---------------------------------- readResource("anki://note-types/<name>")
\* uri.match(/^anki:\/\/note-types\/(.+)$/): the URIs of single note types
NoteTypeUris == {"anki://note-types/Basic", "anki://note-types/Nonexistent"}
ModelNameOf(uri) == IF uri = "anki://note-types/Basic" THEN "Basic" ELSE "Nonexistent"

notReads == <<normVars, legacyVars, toolVars, concurrentVars, mockVars, handlerVars>>

\* what the version action of the remote answers checkConnection's attempt
RemoteVersion == Num("6")

\* A ReadResource request for a note type arrives.
ReceiveRead(uri) == Receive([kind |-> "ReadResource", target |-> uri])

\* await this.ankiClient.checkConnection() settles in readResource for the
\* URI of a note type: it throws, or getModelSchema(modelName) is called.
ReadProbeSettles ==
    /\ request.pc = "handlerProbe"
    /\ request.target \in NoteTypeUris
    /\ CallSettled
    /\ IF call.pc = "thrown"
       THEN /\ Fail(request, call.error)
            /\ UNCHANGED cacheVars
       ELSE /\ request' = [request EXCEPT !.pc = "getModelSchema"]
            /\ GetSchemaIssued(ModelNameOf(request.target))
            /\ UNCHANGED clientVars
    /\ UNCHANGED <<requests, notReads>>

\* await this.getModelSchema(modelName) settles in readResource: the schema
\* is the reply, or "Note type '<name>' does not exist" is thrown
ReadSettles ==
    /\ request.pc = "getModelSchema"
    /\ TaskFinished
    /\ IF task.pc = "returned"
       THEN Reply(request, Arr(<<task.result[1].modelName>>))
       ELSE Fail(request, task.surfaced)
    /\ task' = IdleTask
    /\ frames' = [f \in FrameIds |-> IdleFrame]
    /\ UNCHANGED <<clock, ticks, remoteRev, remoteNames, modelSchemaCache,
                   allModelSchemasCache, lastCacheUpdate, requests, notReads>>

\* The server as constructed.
AdapterIdle ==
    /\ request = IdleRequest
    /\ requests = 0

\* ======================================================================
\* AnkiServer.invokeAnki: the legacy server's transport call
\* (src/unnamed/part_003)
\* ======================================================================
\* JSON null, in the result or the error of an AnkiResponse
Null == "null"

\* What axios.post can end with: a response of any status (validateStatus:
\* null) whose body is an AnkiResponse, an AxiosError with a code, or
\* another exception.
Response(status, result, error) ==
    [kind |-> "response", status |-> status, result |-> result, error |-> error,
     code |-> ""]
AxiosError(code) ==
    [kind |-> "axios", status |-> 0, result |-> Null, error |-> Null, code |-> code]
OtherException ==
    [kind |-> "exception", status |-> 0, result |-> Null, error |-> Null,
     code |-> ""]

Replies ==
    { Response(st, re, er) : st \in {200, 500}, re \in {Null, "Default"},
                             er \in {Null, "deck was not found"} }
    \cup { AxiosError(c) : c \in {"ECONNREFUSED", "ETIMEDOUT", "ECONNRESET",
                                   "ENOTFOUND"} }
    \cup { OtherException }

MsgFailedAfterRetry ==
    <<"Connection to Anki failed after retry. Please check if Anki is running and responsive.">>

NotInvoked ==
    [pc |-> "idle", sent |-> 0, result |-> Null, error |-> NoError]

Returns(sent, result) ==
    [pc |-> "returned", sent |-> sent, result |-> result, error |-> NoError]

Throws(sent, error) ==
    [pc |-> "thrown", sent |-> sent, result |-> Null, error |-> error]

\* the try block after axios.post has answered: status test, error test,
\* return response.data.result; what it throws passes the catch unchanged
\* (an McpError is no AxiosError)
TakeResponse(response) ==
    IF response.status # 200
    THEN Throws(1, McpError("InternalError",
                            <<"Anki returned non-200 status: ",
                              ToString(response.status)>>))
    ELSE IF response.error # Null
         THEN Throws(1, McpError("InternalError",
                                 <<"Anki error: ", response.error>>))
         ELSE Returns(1, response.result)

\* the failure of the retry is reported as the first request's would be
M_RetryRequest_FailedToConnect(retry) ==
    IF retry.kind = "response"
    THEN Returns(2, retry.result)
    ELSE Throws(2, McpError("InternalError",
                            <<"Failed to connect to Anki: ", retry.code>>))

\* the inner try: the request is sent once more;
\*   return retryResponse.data.result / catch (retryError) throw McpError
RetryRequest(retry) ==
    IF retry.kind = "response"
    THEN Returns(2, retry.result)
    ELSE Throws(2, McpError("InternalError", MsgFailedAfterRetry))

\* invokeAnki(action, params), first answering the request and retry the
\* request repeated after ETIMEDOUT or ECONNRESET
invokeAnki(first, retry) ==
    IF first.kind = "response" THEN TakeResponse(first)
    ELSE IF first.kind = "axios"
    THEN IF first.code = "ECONNREFUSED"
         THEN Throws(1, McpError("InternalError", MsgNotRunning))
         ELSE IF first.code \in {"ETIMEDOUT", "ECONNRESET"}
              THEN RetryRequest(retry)
              ELSE Throws(1, McpError("InternalError",
                                      <<"Failed to connect to Anki: ", first.code>>))
    ELSE Throws(1, MkError("TypeError", <<"not an AxiosError">>))

\* One invocation runs to its end.
InvokeAnki ==
    /\ legacy.outcome = NotInvoked
    /\ legacy' = [legacy EXCEPT !.outcome = invokeAnki(legacy.first, legacy.retry)]
    /\ UNCHANGED notLegacy

\* The legacy server not invoked.
LegacyIdle ==
    legacy = [first |-> OtherException, retry |-> OtherException,
              outcome |-> NotInvoked]

\* ======================================================================
\* McpToolHandler: executeTool, createNote, updateNote
\* (src/unnamed/part_004)
\* ======================================================================
\* The decks of the remote when the server starts, and the ids of its notes.
RemoteDeckNames == {"Default"}
RemoteNoteIds == {1}

\* getModelFieldNames(args.type): the fields of a note type, in order
ModelFields == <<"Front", "Back">>

\* field.toLowerCase()
ToLowerCase(field) ==
    IF field = "Front" THEN "front" ELSE IF field = "Back" THEN "back" ELSE field

\* Arguments of a tool call.  `fields` is the set of keys of args.fields
\* that carry a non-empty value; id 0 and "" stand for a missing argument.
ToolArgs(type, deck, fields, id) ==
    [type |-> type, deck |-> deck, fields |-> fields, id |-> id,
     hasTags |-> FALSE, tags |-> {}]

\* args.tags of update_note: left out, or the new tags of the note
TagArgs == {[hasTags |-> FALSE, tags |-> {}]}
           \cup {[hasTags |-> TRUE, tags |-> t] : t \in {{}, {"verb"}}}

\* the note with id 1 as the remote holds it when the server starts: no
\* field written yet, the tags it was created with
RemoteNote == [written |-> {}, tags |-> {"old"}]

CreateNoteArgs ==
    { ToolArgs(t, d, f, 0) :
         t \in {"", "Basic", "Nonexistent"},
         d \in {"", "Default", "Spanish"},
         f \in {{}, {"Front"}, {"Front", "Back"}, {"front", "back"}} }

UpdateNoteArgs ==
    { [ToolArgs("", "", f, i) EXCEPT !.hasTags = t.hasTags, !.tags = t.tags] :
         f \in {{}, {"Front"}}, i \in {0, 1, 2}, t \in TagArgs }

ToolCalls ==
    { [name |-> "create_note", args |-> a] : a \in CreateNoteArgs }
    \cup { [name |-> "update_note", args |-> a] : a \in UpdateNoteArgs }
    \cup { [name |-> "answer_cards", args |-> ToolArgs("", "", {}, 0)] }

\* `remote` lists the client operations createNote / updateNote has started,
\* in order; `probed` tells that executeTool's own checkConnection resolved.
IdleTool ==
    [name |-> "none", args |-> ToolArgs("", "", {}, 0), pc |-> "idle",
     probed |-> FALSE, remote |-> <<>>, error |-> NoError]

InvalidParams(message) == McpError("InvalidParams", message)

\* the "Note type is required" test is left out
M_RequiredArgError_TypeUnchecked(name, args) ==
    IF name = "create_note"
    THEN IF args.deck = "" THEN InvalidParams(<<"Deck name is required">>)
         ELSE IF args.fields = {} THEN InvalidParams(<<"Fields are required">>)
         ELSE NoError
    ELSE IF args.id = 0 THEN InvalidParams(<<"Note ID is required">>)
         ELSE IF args.fields = {} THEN InvalidParams(<<"Fields are required">>)
         ELSE NoError

\* the tests at the head of createNote / updateNote
RequiredArgError(name, args) ==
    IF name = "create_note"
    THEN IF args.type = "" THEN InvalidParams(<<"Note type is required">>)
         ELSE IF args.deck = "" THEN InvalidParams(<<"Deck name is required">>)
         ELSE IF args.fields = {} THEN InvalidParams(<<"Fields are required">>)
         ELSE NoError
    ELSE IF args.id = 0 THEN InvalidParams(<<"Note ID is required">>)
         ELSE IF args.fields = {} THEN InvalidParams(<<"Fields are required">>)
         ELSE NoError

\* for (const field of modelFields): the fields args.fields has no value for
MissingFields(args) ==
    SelectSeq(ModelFields,
              LAMBDA field : /\ field \notin args.fields
                             /\ ToLowerCase(field) \notin args.fields)

ToolFails(t, error) == [t EXCEPT !.pc = "failed", !.error = error]

\* await this.ankiClient.<op>(...)
ToolAwaits(t, op) == [t EXCEPT !.pc = op, !.remote = Append(@, op)]

\* await this.ankiClient.answerCards(args): AnkiClient has no answerCards,
\* the call throws a TypeError inside the async method
NotAFunction ==
    MkError("TypeError", <<"this.ankiClient.answerCards is not a function">>)

\* createNote / updateNote / answerCards up to the first await.  executeTool
\* returns the method's promise without awaiting it, so what the method
\* throws is not met by executeTool's catch clause: executeTool rejects with it.
EnterTool(t) ==
    IF t.name = "answer_cards" THEN ToolFails(t, NotAFunction)
    ELSE IF RequiredArgError(t.name, t.args) # NoError
    THEN ToolFails(t, RequiredArgError(t.name, t.args))
    ELSE IF t.name = "create_note" THEN ToolAwaits(t, "getDeckNames")
         ELSE ToolAwaits(t, "notesInfo")

\* createNote / updateNote after the client operation t.pc has resolved
AfterAwait(t, decks, models) ==
    CASE t.pc = "getDeckNames" ->
           IF t.args.deck \notin decks THEN ToolAwaits(t, "createDeck")
           ELSE ToolAwaits(t, "getModelNames")
      [] t.pc = "createDeck" -> ToolAwaits(t, "getModelNames")
      [] t.pc = "getModelNames" ->
           IF t.args.type \notin Names(models)
           THEN ToolFails(t, NoteTypeNotFound(t.args.type))
           ELSE ToolAwaits(t, "getModelFieldNames")
      [] t.pc = "getModelFieldNames" ->
           IF MissingFields(t.args) # <<>>
           THEN ToolFails(t, InvalidParams(<<"Missing required field: ",
                                             Head(MissingFields(t.args))>>))
           ELSE ToolAwaits(t, "addNote")
      [] t.pc = "notesInfo" ->
           IF t.args.id \notin RemoteNoteIds
           THEN ToolFails(t, InvalidParams(<<"Note not found: ",
                                             ToString(t.args.id)>>))
           ELSE ToolAwaits(t, "updateNoteFields")
      [] OTHER -> [t EXCEPT !.pc = "done"]

ToolAwaiting ==
    tool.pc \in {"getDeckNames", "createDeck", "getModelNames",
                 "getModelFieldNames", "addNote", "notesInfo", "updateNoteFields"}

\* executeTool(name, args) is called: await this.ankiClient.checkConnection()
ExecuteTool(c) ==
    /\ tool.pc = "idle"
    /\ Quiescent
    /\ tool' = [IdleTool EXCEPT !.name = c.name, !.args = c.args, !.pc = "probe"]
    /\ UNCHANGED <<remoteDecks, remoteNote, notTools>>

\* executeTool's checkConnection settles; the tool's method runs up to its
\* first await.
ToolProbeSettles(error) ==
    /\ tool.pc = "probe"
    /\ tool' = IF error # NoError THEN ToolFails(tool, error)
               ELSE EnterTool([tool EXCEPT !.probed = TRUE])
    /\ UNCHANGED <<remoteDecks, remoteNote, notTools>>

\* The client operation the tool awaits settles: thrown on, or the method
\* goes on to its next await, its error or its end.  A createDeck that
\* resolved has added the deck; an updateNoteFields that resolved has
\* written the fields it was given (updateNoteFields({id, fields})).
ToolCallSettles(error) ==
    /\ ToolAwaiting
    /\ IF error # NoError
       THEN /\ tool' = ToolFails(tool, error)
            /\ UNCHANGED <<remoteDecks, remoteNote>>
       ELSE /\ remoteDecks' = IF tool.pc = "createDeck"
                              THEN remoteDecks \cup {tool.args.deck}
                              ELSE remoteDecks
            /\ remoteNote' = IF tool.pc = "updateNoteFields"
                             THEN [remoteNote EXCEPT
                                     !.written = @ \cup tool.args.fields]
                             ELSE remoteNote
            /\ tool' = AfterAwait(tool, remoteDecks', remoteNames)
    /\ UNCHANGED notTools

\* The requester takes the outcome of the tool call.
ToolReturns ==
    /\ tool.pc \in {"done", "failed"}
    /\ tool' = IdleTool
    /\ UNCHANGED <<remoteDecks, remoteNote, notTools>>

\* The tool handler as constructed.
ToolsIdle ==
    /\ tool = IdleTool
    /\ remoteDecks = RemoteDeckNames
    /\ remoteNote = RemoteNote

\* ======================================================================
\* AnkiClient: operations in flight together
\* ======================================================================
\* Every activation of executeWithRetry has its own `lastError` and
\* `attempt`; the activations share this.config, which nothing writes after
\* the constructor, and this.client.
Slots == 1..MaxInFlight

\* Promise.all([createDeck, modelNames, deckNames])
ConcurrentOps == <<"createDeck", "getModelNames", "getDeckNames">>

OpOf(s) == ConcurrentOps[((s - 1) % Len(ConcurrentOps)) + 1]

\* what the remote answers when it accepts the operation
OpResults(op) ==
    IF op = "createDeck" THEN {Num("1651445861967")}
    ELSE {Arr(<<"Default">>), Arr(<<"Default", "Spanish">>)}

\* raw failures of an attempt of an operation in flight with others
ConcurrentFailures ==
    { MkError("Error", <<SigRefused>>), MkError("Error", <<SigCollection>>) }

InFlight(c) == c.pc \in {"attempt", "backoff"}

\* `attempt` kept in one place for all activations
M_Advance_Shared(cs, s) ==
    [t \in DOMAIN cs |-> IF InFlight(cs[t]) THEN [cs[t] EXCEPT !.attempt = @ + 1]
                         ELSE cs[t]]

\* attempt++ : the loop counter of the activation in slot s
Advance(cs, s) == [cs EXCEPT ![s].attempt = @ + 1]

\* One step of slot s brings its activation to `c`.
Step(cs, s, c) ==
    /\ calls' = [cs EXCEPT ![s] = c]
    /\ UNCHANGED peak

\* A public operation is called while others may be in flight.
BeginIn(s) ==
    /\ calls[s].pc = "idle"
    /\ calls' = [calls EXCEPT ![s] =
                   EnterLoop([IdleCall EXCEPT !.op = OpOf(s), !.wrapped = TRUE,
                                              !.maxRetries = DefaultMaxRetries])]
    /\ peak' = LET now == Cardinality({t \in Slots : InFlight(calls'[t])})
               IN IF now > peak THEN now ELSE peak
    /\ UNCHANGED <<retryTimeout, notConcurrent>>

\* return await operation()
SucceedsIn(s, value) ==
    /\ calls[s].pc = "attempt"
    /\ Step(calls, s,
            [calls[s] EXCEPT
               !.pc = "returned",
               !.log = Append(@, [ok |-> TRUE, raw |-> NoError, value |-> value]),
               !.result = ReturnValue(calls[s].op, value)])
    /\ UNCHANGED <<retryTimeout, notConcurrent>>

\* catch (error): lastError = this.normalizeError(error), then the backoff
\* or, on the last attempt, attempt++, the loop test and the throw
FailsIn(s, raw) ==
    /\ calls[s].pc = "attempt"
    /\ LET caught == [calls EXCEPT
                        ![s].lastError = normalizeError(raw),
                        ![s].log = Append(@, [ok |-> FALSE, raw |-> raw,
                                              value |-> NoValue])]
       IN IF WaitTest(caught[s])
          THEN Step(caught, s,
                    [caught[s] EXCEPT
                       !.pc = "backoff",
                       !.delays = Append(@, BackoffDelay(caught[s].attempt,
                                                         retryTimeout))])
          ELSE LET cs == Advance(caught, s)
               IN Step(cs, s, EnterLoop(cs[s]))
    /\ UNCHANGED <<retryTimeout, notConcurrent>>

\* the backoff timer of slot s fires: attempt++ and the loop test
BackoffElapsedIn(s) ==
    /\ calls[s].pc = "backoff"
    /\ LET cs == Advance(calls, s)
       IN Step(cs, s, EnterLoop(cs[s]))
    /\ UNCHANGED <<retryTimeout, notConcurrent>>

\* No operation called yet.
ConcurrentIdle ==
    /\ calls = [s \in Slots |-> IdleCall]
    /\ peak = 0

\* ======================================================================
\* MockAnkiConnect and the test helpers
\* (src/src/__tests__/helpers/mockAnkiConnect.ts, testUtils.ts)
\* ======================================================================
\* testConfig.defaultDeck and testConfig.noteModels.{basic,cloze}.{en,zh}
DefaultDeck == "Default"
BasicEn == "Basic"
BasicZh == "Basic_zh"
ClozeEn == "Cloze"
ClozeZh == "Cloze_zh"
InitialNoteTypes == {BasicEn, BasicZh, ClozeEn, ClozeZh}

\* a note's fields: a map from field names to texts
NoFields == [k \in {} |-> ""]
\* fields[k], undefined counting as the empty text (both are falsy)
Field(fields, k) == IF k \in DOMAIN fields THEN fields[k] ELSE ""

ClozeText == "{{c1::x}}"
\* textField.includes("{{c") && textField.includes("}}")
HasCloze(text) == text = ClozeText

NoteSlots == 1..MaxNotes
NoNote ==
    [id |-> 0, fields |-> NoFields, tags |-> <<>>, modelName |-> "", deckName |-> ""]

\* what an operation of the mock leaves: its state and the error it threw
Out(m, error) == [mock |-> m, error |-> error]

\* createDeck without the duplicate test
M_createDeck_NoDuplicateTest(m, deck) ==
    IF deck = "" THEN Out(m, InvalidParams(<<"Deck name is required">>))
    ELSE Out([m EXCEPT !.decks = @ \cup {deck}], NoError)

\* MockAnkiConnect.createDeck
createDeck(m, deck) ==
    IF deck = "" THEN Out(m, InvalidParams(<<"Deck name is required">>))
    ELSE IF deck \in m.decks
         THEN Out(m, InvalidParams(<<"Deck already exists: ", deck>>))
         ELSE Out([m EXCEPT !.decks = @ \cup {deck}], NoError)

\* MockAnkiConnect.createModel; an argument that is not an array counts as
\* the empty array
createModel(m, p) ==
    IF p.modelName = "" THEN Out(m, InvalidParams(<<"Model name is required">>))
    ELSE IF Len(p.inOrderFields) = 0
         THEN Out(m, InvalidParams(<<"Fields array is required">>))
    ELSE IF Len(p.cardTemplates) = 0
         THEN Out(m, InvalidParams(<<"Card templates array is required">>))
    ELSE IF p.modelName \in m.noteTypes
         THEN Out(m, InvalidParams(<<"Note type already exists: ", p.modelName>>))
    ELSE Out([m EXCEPT !.noteTypes = @ \cup {p.modelName}], NoError)

\* MockAnkiConnect.validateNoteFields; "Text_zh" stands for the field 文字
validateNoteFields(note) ==
    IF note.deckName = "" THEN InvalidParams(<<"Deck name is required">>)
    ELSE IF note.modelName = "" THEN InvalidParams(<<"Model name is required">>)
    ELSE IF ~note.hasFields THEN InvalidParams(<<"Fields are required">>)
    ELSE IF note.modelName = BasicEn /\ Field(note.fields, "Front") = ""
         THEN InvalidParams(<<"Front field is required for Basic notes">>)
    ELSE IF note.modelName = BasicEn /\ Field(note.fields, "Back") = ""
         THEN InvalidParams(<<"Back field is required for Basic notes">>)
    ELSE IF note.modelName \in {ClozeEn, ClozeZh}
         THEN LET textField == IF Field(note.fields, "Text") # ""
                               THEN Field(note.fields, "Text")
                               ELSE Field(note.fields, "Text_zh")
              IN IF textField = ""
                 THEN InvalidParams(<<"Text field is required for Cloze notes">>)
                 ELSE IF ~HasCloze(textField)
                      THEN InvalidParams(<<"Invalid cloze note: missing cloze deletion format {{c1::...}}">>)
                      ELSE NoError
    ELSE NoError

\* MockAnkiConnect.addNote
addNote(m, note) ==
    IF validateNoteFields(note) # NoError THEN Out(m, validateNoteFields(note))
    ELSE IF note.deckName \notin m.decks
         THEN Out(m, InvalidParams(<<"Deck not found: ", note.deckName>>))
    ELSE IF note.modelName \notin m.noteTypes
         THEN Out(m, InvalidParams(<<"Note type not found: ", note.modelName>>))
    ELSE Out([m EXCEPT !.nextNoteId = @ + 1,
                       !.notes[m.nextNoteId] =
                          [id |-> m.nextNoteId, fields |-> note.fields,
                           tags |-> note.tags, modelName |-> note.modelName,
                           deckName |-> note.deckName]],
             NoError)

\* the supplied fields alone are kept
M_Merge_Replace(existing, fields) == fields

\* { ...existingNote.fields, ...note.fields }
Merge(existing, fields) ==
    [k \in DOMAIN existing \cup DOMAIN fields |->
        IF k \in DOMAIN fields THEN fields[k] ELSE existing[k]]

\* this.notes.get(id) is defined
HasNote(m, id) == id \in NoteSlots /\ m.notes[id] # NoNote

\* MockAnkiConnect.updateNoteFields for an argument of its declared type,
\* { id: number; fields: Record<string, string> }, which passes the three
\* tests on the argument's shape
updateNoteFields(m, note) ==
    IF ~HasNote(m, note.id)
    THEN Out(m, InvalidParams(<<"Note not found: ", ToString(note.id)>>))
    ELSE Out([m EXCEPT !.notes[note.id].fields = Merge(@, note.fields)], NoError)

\* MockAnkiConnect.deleteNotes: notes.forEach, which stops at the first id
\* that has no note, the notes before it deleted
RECURSIVE deleteNotes(_, _)
deleteNotes(m, ids) ==
    IF ids = <<>> THEN Out(m, NoError)
    ELSE IF ~HasNote(m, Head(ids))
         THEN Out(m, InvalidParams(<<"Note not found: ", ToString(Head(ids))>>))
         ELSE deleteNotes([m EXCEPT !.notes[Head(ids)] = NoNote], Tail(ids))

\* deleteDeck leaving the notes of the deck in the store
M_deleteDeck_KeepsNotes(m, name) ==
    IF name \notin m.decks
    THEN Out(m, InvalidParams(<<"Deck not found: ", name>>))
    ELSE Out([m EXCEPT !.decks = @ \ {name}, !.testDecks = @ \ {name}], NoError)

\* MockAnkiConnect.deleteDeck
deleteDeck(m, name) ==
    IF name \notin m.decks
    THEN Out(m, InvalidParams(<<"Deck not found: ", name>>))
    ELSE Out([m EXCEPT
                !.notes = [i \in NoteSlots |->
                             IF @[i].deckName = name THEN NoNote ELSE @[i]],
                !.decks = @ \ {name},
                !.testDecks = @ \ {name}],
             NoError)

\* initializeTestTracking(): the tracking sets, in insertion order
NoTestResources == [decks |-> <<>>, noteIds |-> <<>>, noteTypes |-> <<>>]

\* Set.prototype.add on a set kept in insertion order
SetAdd(seq, x) == IF x \in {seq[i] : i \in DOMAIN seq} THEN seq ELSE Append(seq, x)

\* for (const deck of testResources.decks) try { deleteDeck(deck) } catch {}
RECURSIVE DeleteTestDecks(_, _)
DeleteTestDecks(m, decks) ==
    IF decks = <<>> THEN m
    ELSE DeleteTestDecks(deleteDeck(m, Head(decks)).mock, Tail(decks))

\* cleanupTestResources(ankiConnect): the mock and the tracking it leaves,
\* and the error it threw
cleanupTestResources(m, tr) ==
    LET deleted == IF Len(tr.noteIds) > 0 THEN deleteNotes(m, tr.noteIds)
                   ELSE Out(m, NoError)
    IN IF deleted.error # NoError
       THEN [mock |-> deleted.mock, testResources |-> tr, error |-> deleted.error]
       ELSE [mock |-> DeleteTestDecks(deleted.mock, tr.decks),
             testResources |-> NoTestResources, error |-> NoError]

\* ---- the requests the tests send
TestDeckNames == {"test_deck_1", "test_deck_2"}
DeckRequests == {"", DefaultDeck, "test_deck_1"}

TestNoteTypeName == "test_note_type_1"
ModelRequest(modelName, inOrderFields, cardTemplates) ==
    [modelName |-> modelName, inOrderFields |-> inOrderFields,
     cardTemplates |-> cardTemplates]

\* a new note type, one that exists, and one request for each test of
\* createModel that rejects
ModelRequests ==
    { ModelRequest(TestNoteTypeName, <<"Front", "Back">>, <<"Card 1">>),
      ModelRequest(BasicEn, <<"Front", "Back">>, <<"Card 1">>),
      ModelRequest("", <<"Front", "Back">>, <<"Card 1">>),
      ModelRequest(TestNoteTypeName, <<>>, <<"Card 1">>),
      ModelRequest(BasicEn, <<"Front", "Back">>, <<>>) }

BasicFields == [k \in {"Front", "Back"} |-> "x"]
NoteRequest(deckName, modelName, hasFields, fields) ==
    [deckName |-> deckName, modelName |-> modelName, hasFields |-> hasFields,
     fields |-> fields, tags |-> <<"test">>]

\* notes the mock accepts once their deck exists, and one note for each test
\* of validateNoteFields and of addNote that rejects
NoteRequests ==
    { NoteRequest(DefaultDeck, BasicEn, TRUE, BasicFields),
      NoteRequest("test_deck_1", BasicEn, TRUE, BasicFields),
      NoteRequest("test_deck_1", ClozeEn, TRUE, [k \in {"Text"} |-> ClozeText]),
      NoteRequest("", BasicEn, TRUE, BasicFields),
      NoteRequest(DefaultDeck, "", TRUE, BasicFields),
      NoteRequest(DefaultDeck, BasicEn, FALSE, NoFields),
      NoteRequest(DefaultDeck, BasicEn, TRUE, [k \in {"Back"} |-> "x"]),
      NoteRequest(DefaultDeck, BasicEn, TRUE, [k \in {"Front"} |-> "x"]),
      NoteRequest(DefaultDeck, ClozeEn, TRUE, BasicFields),
      NoteRequest(DefaultDeck, ClozeZh, TRUE, [k \in {"Text_zh"} |-> "x"]),
      NoteRequest(DefaultDeck, "Nonexistent", TRUE, BasicFields) }

UpdateRequests ==
    { [id |-> i, fields |-> f] :
         i \in 1..(MaxNotes + 1),
         f \in { NoFields, [k \in {"Front"} |-> "y"] } }

\* history: the last operation of the mock or of the helpers, what it was
\* asked and the error it threw
NoMockCall ==
    [op |-> "none", name |-> "", id |-> 0, fields |-> NoFields,
     complete |-> FALSE, error |-> NoError]

Called(op, name, id, fields, error) ==
    [op |-> op, name |-> name, id |-> id, fields |-> fields,
     complete |-> TRUE, error |-> error]

\* the createModel request names the note type and carries its fields and
\* its card templates
CompleteModel(p) ==
    p.modelName # "" /\ Len(p.inOrderFields) > 0 /\ Len(p.cardTemplates) > 0

\* a request { action: 'createDeck', params: { deck } } reaches the mock
MockCreateDeck(deck) ==
    /\ mock' = createDeck(mock, deck).mock
    /\ mockCall' = Called("createDeck", deck, 0, NoFields, createDeck(mock, deck).error)
    /\ UNCHANGED <<testResources, notMock>>

MockCreateModel(p) ==
    /\ mock' = createModel(mock, p).mock
    /\ mockCall' = [Called("createModel", p.modelName, 0, NoFields,
                           createModel(mock, p).error)
                       EXCEPT !.complete = CompleteModel(p)]
    /\ UNCHANGED <<testResources, notMock>>

MockAddNote(note) ==
    /\ mock.nextNoteId <= MaxNotes
    /\ mock' = addNote(mock, note).mock
    /\ mockCall' = Called("addNote", "", 0, NoFields,
                          addNote(mock, note).error)
    /\ UNCHANGED <<testResources, notMock>>

MockUpdateNoteFields(note) ==
    /\ mock' = updateNoteFields(mock, note).mock
    /\ mockCall' = Called("updateNoteFields", "", note.id, note.fields,
                          updateNoteFields(mock, note).error)
    /\ UNCHANGED <<testResources, notMock>>

\* the ids of deleteNotes requests: notes of the store, an id the store never
\* held, and one id listed twice
DeleteRequests ==
    { <<>>, <<1>>, <<MaxNotes + 1>>, <<1, 2>>, <<2, 1>>, <<1, MaxNotes + 1>>,
      <<MaxNotes + 1, 1>>, <<1, 1>> }

\* a request { action: 'deleteNotes', params: { notes: ids } } reaches the mock
MockDeleteNotes(ids) ==
    /\ mock' = deleteNotes(mock, ids).mock
    /\ mockCall' = Called("deleteNotes", "", 0, NoFields, deleteNotes(mock, ids).error)
    /\ UNCHANGED <<testResources, notMock>>

\* createTestDeck(): the name is registered, nothing is sent to the mock
CreateTestDeck(name) ==
    /\ testResources' = [testResources EXCEPT !.decks = SetAdd(@, name)]
    /\ mockCall' = Called("createTestDeck", name, 0, NoFields, NoError)
    /\ UNCHANGED <<mock, notMock>>

\* createTestNoteType()
CreateTestNoteType ==
    /\ testResources' = [testResources EXCEPT
                           !.noteTypes = SetAdd(@, TestNoteTypeName)]
    /\ mockCall' = Called("createTestNoteType", TestNoteTypeName, 0, NoFields, NoError)
    /\ UNCHANGED <<mock, notMock>>

\* await cleanupTestResources(mockAnkiConnect)
CleanupTestResources ==
    LET out == cleanupTestResources(mock, testResources)
    IN /\ mock' = out.mock
       /\ testResources' = out.testResources
       /\ mockCall' = Called("cleanupTestResources", "", 0, NoFields, out.error)
       /\ UNCHANGED notMock

\* new MockAnkiConnect(); initializeTestTracking()
MockIdle ==
    /\ mock = [decks |-> {DefaultDeck},
               notes |-> [i \in NoteSlots |-> NoNote],
               noteTypes |-> InitialNoteTypes,
               nextNoteId |-> 1,
               testDecks |-> {}]
    /\ testResources = NoTestResources
    /\ mockCall = NoMockCall

\* ======================================================================
\* batch_create_notes: McpToolHandler.batchCreateNotes (src/unnamed/part_004)
\* and the case of the legacy server's CallTool handler (src/unnamed/part_003)
\* ======================================================================
\* everything but the tool handlers' calls
notHandlers == <<clientVars, normVars, cacheVars, adapterVars, legacyVars, toolVars,
                 concurrentVars, mockVars>>

\* Notes in one batch_create_notes request.
MaxBatch == 3

\* the two servers that answer batch_create_notes
BatchHandlers == {"McpToolHandler", "AnkiServer"}

\* args.stopOnError: true, false, or not given
StopOnErrorArgs == {"true", "false", "omitted"}

\* note.type of the notes sent: a note type of the remote and one it lacks
BatchNoteTypes == {"Basic", "Nonexistent"}
BatchRequests == UNION {[1..n -> BatchNoteTypes] : n \in 0..MaxBatch}

\* results.push({success, noteId / error, index}); the legacy server pushes
\* {success, data / error} without an index
NoIndex == -1
BatchResult(success, index, noteId, error) ==
    [success |-> success, index |-> index, noteId |-> noteId, error |-> error]

IdleBatch ==
    [handler |-> "none", notes |-> <<>>, stopOnError |-> "omitted", pc |-> "idle",
     i |-> 0, results |-> <<>>, sent |-> <<>>, error |-> NoError,
     total |-> NoIndex, successful |-> NoIndex, failed |-> NoIndex]

\* stopOnError is looked at as it was given
M_StopOnError_AsGiven(handler, arg) == arg = "true"

\* McpToolHandler: const stopOnError = args.stopOnError !== false
\* AnkiServer:     if (stopOnError), the argument as it was given
StopOnError(handler, arg) ==
    IF handler = "McpToolHandler" THEN arg # "false" ELSE arg = "true"

Successes(results) == Cardinality({k \in DOMAIN results : results[k].success})

\* the loop is left: McpToolHandler reports results, total, successful and
\* failed; the legacy server reports the results alone
BatchReturns(b) ==
    IF b.handler = "McpToolHandler"
    THEN [b EXCEPT !.pc = "returned", !.total = Len(b.notes),
                   !.successful = Successes(b.results),
                   !.failed = Len(b.results) - Successes(b.results)]
    ELSE [b EXCEPT !.pc = "returned"]

\* for (let i = 0; i < args.notes.length; i++): the next note, or the report
BatchLoop(b) == IF b.i < Len(b.notes) THEN [b EXCEPT !.pc = "note"] ELSE BatchReturns(b)

\* batch_create_notes is called.  McpToolHandler rejects an empty array.
StartBatch(handler, notes, stopOnError) ==
    /\ batch.pc = "idle"
    /\ LET b == [IdleBatch EXCEPT !.handler = handler, !.notes = notes,
                                  !.stopOnError = stopOnError]
       IN batch' = IF handler = "McpToolHandler" /\ Len(notes) = 0
                   THEN [b EXCEPT !.pc = "failed",
                                  !.error = InvalidParams(<<"Notes array is required">>)]
                   ELSE BatchLoop(b)
    /\ UNCHANGED <<advert, search, notHandlers>>

\* what the try block of one iteration ends with: the note id, or the
\* message of what was thrown.  McpToolHandler throws "Note type not found"
\* itself when the remote lacks the type; a remote call that fails throws in
\* both servers.
NoteOutcome(b, remoteFails) ==
    LET index == IF b.handler = "McpToolHandler" THEN b.i ELSE NoIndex
    IN IF remoteFails
       THEN BatchResult(FALSE, index, 0, MsgNotRunning)
       ELSE IF b.handler = "McpToolHandler" /\ b.notes[b.i + 1] \notin ModelNameSet
            THEN BatchResult(FALSE, index, 0,
                             <<"Note type not found: ", b.notes[b.i + 1]>>)
            ELSE BatchResult(TRUE, index, Successes(b.results) + 1, <<>>)

\* One iteration of the loop: the remote calls for notes[i] settle, the result
\* is pushed, and the loop breaks or goes on.
BatchNoteSettles(remoteFails) ==
    /\ batch.pc = "note"
    /\ LET result == NoteOutcome(batch, remoteFails)
           pushed == [batch EXCEPT !.results = Append(@, result),
                                   !.sent = Append(@, batch.i)]
       IN batch' = IF ~result.success /\ StopOnError(batch.handler, batch.stopOnError)
                   THEN BatchReturns(pushed)
                   ELSE BatchLoop([pushed EXCEPT !.i = @ + 1])
    /\ UNCHANGED <<advert, search, notHandlers>>

\* ======================================================================
\* The tool name of a note type: McpResourceHandler.readResource advertises
\* it (src/src/mcpResource.ts), McpToolHandler.executeTool routes it
\* (src/unnamed/part_004).  Names are sequences of characters.
\* ======================================================================
\* Characters in a note type name.
MaxNameLen == 3

\* a letter, the space, the tab and the underscore
NameChars == {"a", " ", "\t", "_"}
NoteTypeNames == UNION {[1..n -> NameChars] : n \in 1..MaxNameLen}

\* \s
IsWhitespace(c) == c \in {" ", "\t"}

CreatePrefix == <<"c", "r", "e", "a", "t", "e", "_">>
NoteSuffix == <<"_", "n", "o", "t", "e">>

\* the tools of executeTool's switch whose name starts with "create_"
StaticCreateTools ==
    { <<"c", "r", "e", "a", "t", "e", "_", "d", "e", "c", "k">>,
      <<"c", "r", "e", "a", "t", "e", "_", "n", "o", "t", "e">>,
      <<"c", "r", "e", "a", "t", "e", "_", "n", "o", "t", "e", "_", "t", "y", "p", "e">> }

RECURSIVE SkipWhitespace(_)
SkipWhitespace(text) ==
    IF text # <<>> /\ IsWhitespace(Head(text)) THEN SkipWhitespace(Tail(text))
    ELSE text

\* modelName.replace(/\s+/g, "_")
RECURSIVE ReplaceWhitespaceRuns(_)
ReplaceWhitespaceRuns(text) ==
    IF text = <<>> THEN <<>>
    ELSE IF IsWhitespace(Head(text))
         THEN <<"_">> \o ReplaceWhitespaceRuns(SkipWhitespace(text))
         ELSE <<Head(text)>> \o ReplaceWhitespaceRuns(Tail(text))

\* createTool: `create_${modelName.replace(/\s+/g, "_")}_note`
CreateToolOf(modelName) ==
    CreatePrefix \o ReplaceWhitespaceRuns(modelName) \o NoteSuffix

\* typeToolMatch[1].replace(/_/g, " ")
ReplaceUnderscores(text) ==
    [i \in DOMAIN text |-> IF text[i] = "_" THEN " " ELSE text[i]]

\* name.match(/^create_(.+)_note$/): the group, or <<>> when there is no match
TypeToolMatch(name) ==
    LET n == Len(name)
        p == Len(CreatePrefix)
        q == Len(NoteSuffix)
    IN IF /\ n >= p + 1 + q
          /\ SubSeq(name, 1, p) = CreatePrefix
          /\ SubSeq(name, n - q + 1, n) = NoteSuffix
       THEN SubSeq(name, p + 1, n - q)
       ELSE <<>>

\* executeTool's switch: the handler the name is routed to, with the model
\* name createModelSpecificNote is given
Route(name) ==
    IF name \in StaticCreateTools THEN [handler |-> "static", modelName |-> <<>>]
    ELSE IF TypeToolMatch(name) # <<>>
         THEN [handler |-> "createModelSpecificNote",
               modelName |-> ReplaceUnderscores(TypeToolMatch(name))]
         ELSE [handler |-> "Unknown tool", modelName |-> <<>>]

IdleAdvert ==
    [pc |-> "idle", modelName |-> <<>>, createTool |-> <<>>,
     routed |-> [handler |-> "none", modelName |-> <<>>]]

\* readResource("anki://note-types/<modelName>") answers with createTool
AdvertiseTool(modelName) ==
    /\ advert.pc = "idle"
    /\ advert' = [advert EXCEPT !.pc = "advertised", !.modelName = modelName,
                                !.createTool = CreateToolOf(modelName)]
    /\ UNCHANGED <<batch, search, notHandlers>>

\* executeTool(createTool, args) picks the handler
CallAdvertisedTool ==
    /\ advert.pc = "advertised"
    /\ advert' = [advert EXCEPT !.pc = "routed", !.routed = Route(advert.createTool)]
    /\ UNCHANGED <<batch, search, notHandlers>>

\* ======================================================================
\* McpToolHandler.searchNotes (src/unnamed/part_004) over
\* AnkiClient.findNotes and AnkiClient.notesInfo (src/src/utils.ts)
\* ======================================================================
\* Note ids the remote matches to one query.
MaxMatched == 52

\* Math.min(noteIds.length, 50), noteIds.length > 50
SearchLimit == 50

\* an element of the remote's findNotes result: a number, or something else
Item(id, isNumber) == [id |-> id, isNumber |-> isNumber]

\* the remote's result as received: an array of items, or no array
Found(isArray, items) == [isArray |-> isArray, items |-> items]

\* n note ids in the remote's order, oldest first or newest first
Ascending(n) == [i \in 1..n |-> Item(i, TRUE)]
Descending(n) == [i \in 1..n |-> Item(n + 1 - i, TRUE)]

FoundResults ==
    { Found(FALSE, <<>>) }
    \cup { Found(TRUE, Ascending(n)) : n \in 0..MaxMatched }
    \cup { Found(TRUE, Descending(n)) : n \in 0..MaxMatched }
    \cup { Found(TRUE, <<Item(0, FALSE)>> \o Ascending(n)) : n \in {0, SearchLimit} }

SearchQueries == {"", "deck:Default"}

\* AnkiClient.findNotes: Array.isArray(result)
\*    ? result.filter((id) => typeof id === "number") : []
IsNumber(item) == item.isNumber
findNotes(found) ==
    IF found.isArray
    THEN LET numbers == SelectSeq(found.items, IsNumber)
         IN [i \in DOMAIN numbers |-> numbers[i].id]
    ELSE <<>>

\* the info of one note, as the remote gives it for the id
NoteInfo(id) == [noteId |-> id]

\* AnkiClient.notesInfo: Array.isArray(result) ? result : []
notesInfo(ids, isArray) ==
    IF isArray THEN [i \in DOMAIN ids |-> NoteInfo(ids[i])] ELSE <<>>

\* every matched note is asked for
M_FirstNotes_All(noteIds) == noteIds

\* noteIds.slice(0, Math.min(noteIds.length, 50))
FirstNotes(noteIds) == SubSeq(noteIds, 1, Min(Len(noteIds), SearchLimit))

NoReply == [total |-> 0, notes |-> <<>>, limitApplied |-> FALSE]

IdleSearch ==
    [pc |-> "idle", query |-> "", found |-> Found(FALSE, <<>>), noteIds |-> <<>>,
     asked |-> <<>>, calls |-> <<>>, reply |-> NoReply, error |-> NoError]

\* JSON.stringify({query, total, notes, limitApplied})
SearchReturns(s, notes) ==
    [s EXCEPT !.pc = "returned",
              !.reply = [total |-> Len(s.noteIds), notes |-> notes,
                         limitApplied |-> Len(s.noteIds) > SearchLimit]]

\* searchNotes(args): the query is required; findNotes is called
StartSearch(query) ==
    /\ search.pc = "idle"
    /\ search' = IF query = ""
                 THEN [search EXCEPT !.pc = "failed",
                                     !.error = InvalidParams(<<"Search query is required">>)]
                 ELSE [search EXCEPT !.pc = "findNotes", !.query = query,
                                     !.calls = <<"findNotes">>]
    /\ UNCHANGED <<batch, advert, notHandlers>>

\* await this.ankiClient.findNotes(args.query) settles; with notes matched,
\* notesInfo is called for the first of them
FindNotesSettles(found, fails) ==
    /\ search.pc = "findNotes"
    /\ search' =
          IF fails
          THEN [search EXCEPT !.pc = "failed",
                              !.error = AnkiConnectionError(MsgNotRunning)]
          ELSE LET noteIds == findNotes(found)
                   s == [search EXCEPT !.found = found, !.noteIds = noteIds]
               IN IF Len(noteIds) > 0
                  THEN [s EXCEPT !.pc = "notesInfo", !.asked = FirstNotes(noteIds),
                                 !.calls = Append(@, "notesInfo")]
                  ELSE SearchReturns(s, <<>>)
    /\ UNCHANGED <<batch, advert, notHandlers>>

\* await this.ankiClient.notesInfo(...) settles
NotesInfoSettles(isArray, fails) ==
    /\ search.pc = "notesInfo"
    /\ search' =
          IF fails
          THEN [search EXCEPT !.pc = "failed",
                              !.error = AnkiConnectionError(MsgNotRunning)]
          ELSE SearchReturns(search, notesInfo(search.asked, isArray))
    /\ UNCHANGED <<batch, advert, notHandlers>>

HandlersIdle ==
    /\ batch = IdleBatch
    /\ advert = IdleAdvert
    /\ search = IdleSearch

\* The client as constructed, no operation issued yet.
ClientIdle ==
    /\ call = IdleCall
    /\ opsStarted = 0
    /\ totalAttempts = 0
    /\ totalFailures = 0

NormIdle ==
    /\ thrownValue = NoError
    /\ normalized = NoError

RetryInit ==
    /\ retryTimeout \in RetryTimeouts
    /\ ClientIdle
    /\ NormIdle
    /\ CacheIdle
    /\ AdapterIdle
    /\ LegacyIdle
    /\ ToolsIdle
    /\ ConcurrentIdle
    /\ MockIdle
    /\ HandlersIdle

RetryNext ==
    \/ \E op \in PublicOps : StartOp(op)
    \/ \E m \in 0..MaxBudget : StartExecuteWithRetry(m)
    \/ \E v \in Results : AttemptSucceeds(v)
    \/ \E raw \in AttemptFailures : AttemptFails(raw)
    \/ BackoffElapsed

vars == <<clientVars, normVars, cacheVars, adapterVars, legacyVars, toolVars,
          concurrentVars, mockVars, handlerVars>>

\* The retry loop of AnkiClient driven by a caller issuing operations one
\* after the other.
SpecRetry == RetryInit /\ [][RetryNext]_vars

\* the promise of the attempt in progress settles
AttemptSettles ==
    \/ \E v \in Results : AttemptSucceeds(v)
    \/ \E raw \in AttemptFailures : AttemptFails(raw)

\* The retry loop when every attempt eventually settles and every backoff
\* timer set with setTimeout eventually fires.
SpecRetryLive ==
    SpecRetry /\ WF_vars(AttemptSettles) /\ WF_vars(BackoffElapsed)

\* ------------------------------------------- normalizeError as a function
\* lastError = this.normalizeError(error)
Normalize ==
    /\ normalized = NoError
    /\ normalized' = normalizeError(thrownValue)
    /\ UNCHANGED <<thrownValue, notNorm>>

NormalizeInit ==
    /\ retryTimeout = DefaultRetryTimeout
    /\ ClientIdle
    /\ thrownValue \in RawFailures
    /\ normalized = NoError
    /\ CacheIdle
    /\ AdapterIdle
    /\ LegacyIdle
    /\ ToolsIdle
    /\ ConcurrentIdle
    /\ MockIdle
    /\ HandlersIdle

NormalizeNext == Normalize

\* normalizeError applied to every raw failure.
SpecNormalize == NormalizeInit /\ [][NormalizeNext]_vars


\* ------------------------------------------------ the cache in sequential use
CacheInit ==
    /\ retryTimeout = DefaultRetryTimeout
    /\ ClientIdle
    /\ NormIdle
    /\ CacheIdle
    /\ AdapterIdle
    /\ LegacyIdle
    /\ ToolsIdle
    /\ ConcurrentIdle
    /\ MockIdle
    /\ HandlersIdle

CacheNext ==
    \/ \E name \in RequestedNames : StartGetSchema(name)
    \/ StartGetAll
    \/ \E f \in FrameIds, e \in ClientErrors \cup {NoError} : ModelNamesSettles(f, e)
    \/ \E f \in FrameIds, e \in ClientErrors \cup {NoError} : FanoutSettles(f, e)
    \/ \E e \in ClientErrors \cup {NoError} : AllNamesSettles(e)
    \/ Deliver
    \/ ClearCache
    \/ \E d \in ClockSteps : Tick(d)
    \/ RemoteEdit

\* The schema cache used by one caller: a call is issued once the previous
\* one and all its fetches have settled; time passes and the remote changes
\* at any moment.
SpecCache == CacheInit /\ [][CacheNext]_vars

\* ------------------------------- the cache while note types are deleted
RemoteNamesNext ==
    \/ \E name \in RequestedNames : StartGetSchema(name)
    \/ StartGetAll
    \/ \E f \in FrameIds, e \in ClientErrors \cup {NoError} : ModelNamesSettles(f, e)
    \/ \E f \in FrameIds, e \in ClientErrors \cup {NoError} : FanoutSettles(f, e)
    \/ \E e \in ClientErrors \cup {NoError} : AllNamesSettles(e)
    \/ Deliver
    \/ ClearCache
    \/ \E d \in ClockSteps : Tick(d)
    \/ \E name \in ModelNameSet : RemoteDelete(name)

\* The schema cache used by one caller while the user deletes note types in
\* Anki; the contents of the remaining note types stay as they are.
SpecRemoteNames == CacheInit /\ [][RemoteNamesNext]_vars

\* ------------------------------- the cache cleared while a call is suspended
InterleavedNext ==
    \/ \E name \in RequestedNames : StartGetSchema(name)
    \/ StartGetAll
    \/ \E f \in FrameIds, e \in ClientErrors \cup {NoError} : ModelNamesSettles(f, e)
    \/ \E f \in FrameIds, e \in ClientErrors \cup {NoError} : FanoutSettles(f, e)
    \/ \E e \in ClientErrors \cup {NoError} : AllNamesSettles(e)
    \/ Deliver
    \/ ClearCacheInFlight
    \/ \E d \in ClockSteps : Tick(d)

\* The schema cache used by one caller while clearCache() is called by
\* another party at any moment a call is suspended.
SpecInterleaved == CacheInit /\ [][InterleavedNext]_vars

\* ------------------------------------------------ the adapter serving requests
AdapterInit ==
    /\ retryTimeout = DefaultRetryTimeout
    /\ ClientIdle
    /\ NormIdle
    /\ CacheIdle
    /\ AdapterIdle
    /\ LegacyIdle
    /\ ToolsIdle
    /\ ConcurrentIdle
    /\ MockIdle
    /\ HandlersIdle

AdapterNext ==
    \/ \E req \in Requests : Receive(req)
    \/ ProbeSettles
    \/ HandlerProbeSettles
    \/ HandlerCallSettles
    \/ \E v \in Results : AttemptSucceeds(v)
    \/ \E raw \in AttemptFailures : AttemptFails(raw)
    \/ BackoffElapsed

\* The server handling requests one after the other, each remote call going
\* through the client's retry loop.
SpecAdapter == AdapterInit /\ [][AdapterNext]_vars

\* ----------------------------------------- invokeAnki over every pair of replies
LegacyInit ==
    /\ retryTimeout = DefaultRetryTimeout
    /\ ClientIdle
    /\ NormIdle
    /\ CacheIdle
    /\ AdapterIdle
    /\ legacy \in [first : Replies, retry : Replies, outcome : {NotInvoked}]
    /\ ToolsIdle
    /\ ConcurrentIdle
    /\ MockIdle
    /\ HandlersIdle

LegacyNext == InvokeAnki

\* invokeAnki applied to every reply of the first request and of the retry.
SpecLegacy == LegacyInit /\ [][LegacyNext]_vars

\* ------------------------------- validation in the tools and in the cache
ToolsInit == CacheInit

ToolsNext ==
    \/ \E c \in ToolCalls : ExecuteTool(c)
    \/ \E e \in ClientErrors \cup {NoError} : ToolProbeSettles(e)
    \/ \E e \in ClientErrors \cup {NoError} : ToolCallSettles(e)
    \/ ToolReturns
    \/ \E name \in RequestedNames : tool.pc = "idle" /\ StartGetSchema(name)
    \/ \E f \in FrameIds, e \in ClientErrors \cup {NoError} : ModelNamesSettles(f, e)
    \/ \E f \in FrameIds, e \in ClientErrors \cup {NoError} : FanoutSettles(f, e)
    \/ Deliver

\* One requester calling create_note and update_note and reading note type
\* schemas, one call at a time.
SpecTools == ToolsInit /\ [][ToolsNext]_vars

\* ----------------------------------------------- operations in flight together
ConcurrentInit == RetryInit

ConcurrentNext ==
    \/ \E s \in Slots : BeginIn(s)
    \/ \E s \in Slots : \E v \in OpResults(calls[s].op) : SucceedsIn(s, v)
    \/ \E s \in Slots, raw \in ConcurrentFailures : FailsIn(s, raw)
    \/ \E s \in Slots : BackoffElapsedIn(s)

\* Public operations called without waiting for one another, their attempts
\* and backoff timers settling in any order.
SpecConcurrent == ConcurrentInit /\ [][ConcurrentNext]_vars

\* ------------------------------------------------ the mock remote under test
\* ------------------------------------------------- writes under retry
\* AnkiClient.addNote and AnkiClient.createDeck run through executeWithRetry
\* against a remote that behaves as MockAnkiConnect does; the request or the
\* response of an attempt can be lost on the way.
WriteOps == {"addNote", "createDeck"}

\* the note and the deck the caller asks for
WrittenNote == NoteRequest(DefaultDeck, BasicEn, TRUE, BasicFields)
WrittenDeck == "test_deck_1"

\* what the attempt rejects with when no response arrives
ResponseLost == MkError("Error", <<SigEtimedout>>)
\* what the attempt rejects with when the request is never delivered
RequestLost == MkError("Error", <<SigRefused>>)

notWrites == <<normVars, cacheVars, adapterVars, legacyVars, toolVars, concurrentVars,
               testResources, mockCall, handlerVars>>

\* addNote(params) / createDeck(name) is called
StartWrite(op) == StartOp(op)

\* the request of the attempt reaches the remote, which processes it; its
\* response reaches the client (delivered) or does not
RemoteProcesses(delivered) ==
    /\ call.op \in WriteOps
    /\ call.op = "addNote" => mock.nextNoteId <= MaxNotes
    /\ LET out == IF call.op = "addNote" THEN addNote(mock, WrittenNote)
                  ELSE createDeck(mock, WrittenDeck)
           value == IF call.op = "addNote" THEN Num(ToString(mock.nextNoteId))
                    ELSE Bool("true")
       IN /\ mock' = out.mock
          /\ IF ~delivered THEN Rejects(ResponseLost)
             ELSE IF out.error = NoError THEN Resolves(value)
             ELSE Rejects(out.error)
    /\ UNCHANGED notWrites

WritesNext ==
    \/ \E op \in WriteOps : StartWrite(op)
    \/ \E delivered \in BOOLEAN : RemoteProcesses(delivered)
    \/ AttemptFails(RequestLost)
    \/ BackoffElapsed

SpecWrites == AdapterInit /\ [][WritesNext]_vars

\* --------------------------------------- note types read through the adapter
ReadsNext ==
    \/ \E uri \in NoteTypeUris : ReceiveRead(uri)
    \/ ProbeSettles
    \/ ReadProbeSettles
    \/ \E e \in ClientErrors \cup {NoError} : ModelNamesSettles(TopFrame, e)
    \/ \E e \in ClientErrors \cup {NoError} : FanoutSettles(TopFrame, e)
    \/ ReadSettles
    \/ AttemptSucceeds(RemoteVersion)
    \/ AttemptFails(RequestLost)
    \/ BackoffElapsed
    \/ \E d \in ClockSteps : Tick(d)

\* Requests for single note types served one after the other by the adapter
\* and McpResourceHandler.readResource, while the remote comes and goes.
SpecReads == AdapterInit /\ [][ReadsNext]_vars

MockInit == AdapterInit

\* ------------------------------------------- the tool name of a note type
AdvertNext ==
    \/ \E modelName \in NoteTypeNames : AdvertiseTool(modelName)
    \/ CallAdvertisedTool

\* The createTool of one note type is read from its resource and called.
SpecAdvert == AdapterInit /\ [][AdvertNext]_vars

\* ------------------------------------------------------------ search_notes
SearchNext ==
    \/ \E query \in SearchQueries : StartSearch(query)
    \/ \E found \in FoundResults, fails \in BOOLEAN : FindNotesSettles(found, fails)
    \/ \E isArray \in BOOLEAN, fails \in BOOLEAN : NotesInfoSettles(isArray, fails)

\* One search_notes call, over the results the remote can match.
SpecSearch == AdapterInit /\ [][SearchNext]_vars

\* ------------------------------------------------------ batch_create_notes
BatchNext ==
    \/ \E h \in BatchHandlers, notes \in BatchRequests, stop \in StopOnErrorArgs :
          StartBatch(h, notes, stop)
    \/ \E remoteFails \in BOOLEAN : BatchNoteSettles(remoteFails)

\* One batch_create_notes call in either server, the remote failing or
\* answering for each note.
SpecBatch == AdapterInit /\ [][BatchNext]_vars

MockNext ==
    \/ \E deck \in DeckRequests : MockCreateDeck(deck)
    \/ \E p \in ModelRequests : MockCreateModel(p)
    \/ \E note \in NoteRequests : MockAddNote(note)
    \/ \E note \in UpdateRequests : MockUpdateNoteFields(note)
    \/ \E name \in TestDeckNames : CreateTestDeck(name)
    \/ CreateTestNoteType
    \/ CleanupTestResources

MockNotesNext ==
    \/ \E note \in NoteRequests : MockAddNote(note)
    \/ \E note \in UpdateRequests : MockUpdateNoteFields(note)
    \/ \E ids \in DeleteRequests : MockDeleteNotes(ids)

\* Notes are added to the mock, updated and deleted, in any order.
SpecMockNotes == MockInit /\ [][MockNotesNext]_vars

\* The tests' requests reaching the mock, and the helpers that track and
\* clean up what the tests created, in any order.
SpecMock == MockInit /\ [][MockNext]_vars

\* ======================================================================
\* Claims about the retry loop (SpecRetry) and normalizeError (SpecNormalize)
\* ======================================================================
Finished == call.pc \in {"returned", "thrown"}

\* the raw failure carries the connection-refused signature
Refused(raw) == raw.isError /\ Includes(raw.message, SigRefused)

FailedRefused(entry) == ~entry.ok /\ Refused(entry.raw)

AllRefused ==
    /\ Len(call.log) >= 1
    /\ \A i \in 1..Len(call.log) : FailedRefused(call.log[i])

RECURSIVE SumSeq(_)
SumSeq(q) == IF q = <<>> THEN 0 ELSE Head(q) + SumSeq(Tail(q))

\* 1000 * 2^i capped by the ceiling, written without BackoffDelay
Scheduled(i, ceiling) ==
    IF BackoffBase * (2 ^ i) <= ceiling THEN BackoffBase * (2 ^ i) ELSE ceiling

RECURSIVE ScheduleSum(_, _)
\* sum of Scheduled(i, ceiling) for i = 0 .. n-1
ScheduleSum(n, ceiling) ==
    IF n = 0 THEN 0 ELSE ScheduleSum(n - 1, ceiling) + Scheduled(n - 1, ceiling)

\* what the caller of the frame gets when the loop returns value
Delivered(value) ==
    IF call.wrapped THEN ReturnValue(call.op, value) ELSE value

\* C1: an operation whose first attempt succeeds makes exactly one attempt and
\* waits no backoff delay; as long as no attempt has failed, the number of
\* attempts issued equals the number of operations issued.
Thm_C1_NoRetryOnSuccess ==
    /\ (Len(call.log) >= 1 /\ call.log[1].ok)
          => /\ Len(call.log) = 1
             /\ call.attempt = 0
             /\ call.delays = <<>>
             /\ call.pc = "returned"
    /\ totalFailures = 0 => totalAttempts = opsStarted

\* two operations in a row, all attempts succeeding
Wit_C1_TwoCleanOps ==
    /\ opsStarted >= 2
    /\ totalFailures = 0
    /\ call.pc = "returned"
    /\ Len(call.log) = 1 /\ call.log[1].ok

\* C2: first attempt fails (any failure), second succeeds: exactly two
\* attempts, exactly one backoff delay, the second attempt's result is what
\* the caller gets, and nothing is raised.
Thm_C2_OneRetryThenSuccess ==
    (Len(call.log) >= 2 /\ ~call.log[1].ok /\ call.log[2].ok)
       => /\ Len(call.log) = 2
          /\ Len(call.delays) = 1
          /\ call.pc = "returned"
          /\ call.error = NoError
          /\ call.result = Delivered(call.log[2].value)

Wit_C2_RetriedOnce ==
    /\ call.op = "getDeckNames"
    /\ Len(call.log) = 2 /\ ~call.log[1].ok /\ call.log[2].ok
    /\ call.pc = "returned"
    /\ call.result = Arr(<<"Default">>)

\* C3: an error is raised only after all maxRetries+1 attempts (2 for a public
\* operation); when every attempt failed with connection refused the loop
\* raises the AnkiConnectionError (the public operation hands it on as the
\* McpError carrying its message) and the delays waited sum up to
\* sum(min(1000*2^i, retryTimeout), i = 0..maxRetries-1): 1000 by default.
Thm_C3_PermanentRefusal ==
    /\ call.pc = "thrown" => Len(call.log) = call.maxRetries + 1
    /\ (call.pc = "thrown" /\ call.wrapped) => Len(call.log) = 2
    /\ (AllRefused /\ Finished)
          => /\ call.pc = "thrown"
             /\ call.lastError = AnkiConnectionError(MsgNotRunning)
             /\ call.error = IF call.wrapped
                             THEN McpError("InternalError", MsgNotRunning)
                             ELSE AnkiConnectionError(MsgNotRunning)
             /\ SumSeq(call.delays) = ScheduleSum(call.maxRetries, retryTimeout)
             /\ (call.wrapped /\ retryTimeout = DefaultRetryTimeout)
                   => SumSeq(call.delays) = 1000

Wit_C3_RefusedTwice ==
    /\ call.op = "checkConnection"
    /\ retryTimeout = DefaultRetryTimeout
    /\ AllRefused
    /\ call.pc = "thrown"
    /\ Len(call.log) = 2

\* C4 as claimed: with ceiling 10000, once getDeckNames has seen its first two
\* attempts refused it goes on to a third attempt and ends by returning
\* ["Default"] after delays of 1000 and 2000 ms.
CE_C4_ThirdAttemptOfGetDeckNames ==
    ( /\ retryTimeout = 10000
      /\ call.op = "getDeckNames"
      /\ Len(call.log) >= 2
      /\ FailedRefused(call.log[1]) /\ FailedRefused(call.log[2])
      /\ Finished )
       => /\ call.pc = "returned"
          /\ call.result = Arr(<<"Default">>)
          /\ call.delays = <<1000, 2000>>

\* C4 (amended): with ceiling 10000, getDeckNames has two attempts: after two
\* refused attempts it raises the connection error, having waited one delay
\* of 1000 ms, and makes no third attempt.  The retry loop run with a budget
\* of at least two retries returns the third attempt's ["Default"] after
\* exactly the delays 1000 and 2000 ms.
Thm_C4_TwoRefusalsThenDefault ==
    /\ ( /\ retryTimeout = 10000
         /\ call.op = "getDeckNames"
         /\ Len(call.log) >= 2
         /\ FailedRefused(call.log[1]) /\ FailedRefused(call.log[2]) )
          => /\ Len(call.log) = 2
             /\ call.pc = "thrown"
             /\ call.error = McpError("InternalError", MsgNotRunning)
             /\ call.delays = <<1000>>
    /\ ( /\ retryTimeout = 10000
         /\ ~call.wrapped
         /\ Len(call.log) >= 3
         /\ FailedRefused(call.log[1]) /\ FailedRefused(call.log[2])
         /\ call.log[3] = [ok |-> TRUE, raw |-> NoError,
                           value |-> Arr(<<"Default">>)] )
          => /\ call.maxRetries >= 2
             /\ call.pc = "returned"
             /\ call.result = Arr(<<"Default">>)
             /\ call.delays = <<1000, 2000>>

Wit_C4_GetDeckNamesGivesUp ==
    /\ retryTimeout = 10000
    /\ call.op = "getDeckNames"
    /\ Len(call.log) = 2
    /\ FailedRefused(call.log[1]) /\ FailedRefused(call.log[2])
    /\ call.pc = "thrown"
    /\ call.delays = <<1000>>

\* C5: the i-th delay waited (i from 0) is min(1000 * 2^i, retryTimeout), so
\* none exceeds retryTimeout; one delay is waited after each failed attempt
\* but the last, and none after the final attempt.
Thm_C5_BackoffSchedule ==
    /\ \A i \in 1..Len(call.delays) :
          /\ call.delays[i] = Scheduled(i - 1, retryTimeout)
          /\ call.delays[i] <= retryTimeout
    /\ Len(call.delays) <= call.maxRetries
    /\ call.pc = "backoff" => Len(call.delays) = Len(call.log)
    /\ call.pc = "attempt" => Len(call.delays) = Len(call.log)
    /\ call.pc = "returned" => Len(call.delays) = Len(call.log) - 1
    /\ call.pc = "thrown" => Len(call.delays) = Len(call.log) - 1

\* three failed attempts under a ceiling of 1500: delays 1000 and 1500, none
\* after the third failure
Wit_C5_CappedSecondDelay ==
    /\ retryTimeout = 1500
    /\ call.pc = "thrown"
    /\ Len(call.log) = 3
    /\ call.delays = <<1000, 1500>>

\* the rules of normalizeError, by priority
RuleMatches(r, message) ==
    CASE r = 1 -> Includes(message, SigRefused)
      [] r = 2 -> Includes(message, SigTimeout) \/ Includes(message, SigEtimedout)
      [] r = 3 -> Includes(message, SigCollection)

RuleKind(r) ==
    CASE r = 1 -> "AnkiConnectionError"
      [] r = 2 -> "AnkiTimeoutError"
      [] r = 3 -> "AnkiApiError"

MatchingRules(message) == {r \in 1..3 : RuleMatches(r, message)}

EarliestRule(message) ==
    CHOOSE r \in MatchingRules(message) :
        \A q \in MatchingRules(message) : r <= q

\* C6: for an Error object the kind returned is that of the earliest rule its
\* message matches (refused, then timeout, then collection unavailable); an
\* Error matching none is returned unchanged; a value that is no Error comes
\* back as a plain Error carrying its string form.
Thm_C6_NormalizationOrder ==
    normalized # NoError =>
        IF thrownValue.isError
        THEN IF MatchingRules(thrownValue.message) # {}
             THEN normalized.name = RuleKind(EarliestRule(thrownValue.message))
             ELSE normalized = thrownValue
        ELSE normalized = MkError("Error", thrownValue.message)

\* a message with the timeout signature first and the refused signature
\* second is still a connection error
Wit_C6_SeveralSignatures ==
    /\ thrownValue = MkError("Error", <<SigEtimedout, SigRefused>>)
    /\ normalized = AnkiConnectionError(MsgNotRunning)


\* ======================================================================
\* Claims about the protocol adapter (SpecAdapter)
\* ======================================================================
AdapterProbe == RemoteCall("adapter", "checkConnection")

\* C7: for every request the adapter handles, its connectivity probe is the
\* first remote operation started; any further remote operation of the
\* request starts, and the handler is invoked, only after the probe has
\* succeeded; when the probe fails, after its two attempts, the request fails
\* with the adapter's InternalError and the handler is never invoked.
Thm_C7_ProbeBeforeDispatch ==
    /\ request.pc # "idle"
          => /\ request.remote # <<>>
             /\ request.remote[1] = AdapterProbe
    /\ request.pc = "probe"
          => /\ request.probe = "none"
             /\ ~request.dispatched
             /\ Len(request.remote) = 1
    /\ Len(request.remote) >= 2 => request.probe = "ok"
    /\ request.dispatched => request.probe = "ok"
    /\ request.probe = "failed"
          => /\ request.pc = "failed"
             /\ ~request.dispatched
             /\ request.remote = <<AdapterProbe>>
             /\ request.probeAttempts = DefaultMaxRetries + 1
             /\ request.error = McpError("InternalError", MsgFailedToConnect)

\* a list_decks tool call answered: the adapter's probe, which succeeded at
\* its second attempt, then the handler's own probe, then deckNames
Wit_C7_ToolCallAfterProbe ==
    /\ request.probe = "ok"
    /\ request.probeAttempts = 2
    /\ request.kind = "CallTool" /\ request.target = "list_decks"
    /\ request.pc = "replied"
    /\ request.dispatched
    /\ request.remote = <<AdapterProbe, RemoteCall("handler", "checkConnection"),
                          RemoteCall("handler", "getDeckNames")>>

\* ======================================================================
\* Claims about the schema cache (SpecCache)
\* ======================================================================
IsGetSchema == task.op = "getSchema"

\* the schemas a finished call handed to its caller
Returned == IF task.pc = "returned" THEN task.result ELSE <<>>

\* C8: a getSchema(name) call issued less than 5 minutes after the start of
\* an earlier getSchema(name) call that fetched, with no clear in between,
\* issues no remote call and returns the schema the earlier call returned; a
\* getSchema call that fetches issues exactly the three metadata fetches; and
\* a call issued when now - lastUpdate >= 5 minutes is not answered from the
\* cache: it goes to the remote and returns only after the three fetches.
Thm_C8_SecondCallServedThirdRefetched ==
    /\ ( /\ IsGetSchema
         /\ task.prior.by = "getSchema"
         /\ task.now - task.prior.stamp < cacheExpiry )
          => /\ task.pc = "returned"
             /\ task.hit
             /\ frames[TopFrame].fetches = 0
             /\ frames[TopFrame].calls = 0
             /\ task.result = <<task.prior>>
    /\ (IsGetSchema /\ task.pc = "returned" /\ ~task.hit)
          => frames[TopFrame].fetches = 3
    /\ ( /\ IsGetSchema
         /\ task.name \in ModelNameSet
         /\ task.now - task.stampSeen >= cacheExpiry )
          => /\ ~task.hit
             /\ frames[TopFrame].calls >= 1
             /\ task.pc = "returned" => frames[TopFrame].fetches = 3

\* a second getSchema("Basic") within the window of the first: nothing is
\* fetched and the first call's schema comes back, though the note type has
\* been edited on the remote since
Wit_C8_SecondCallServed ==
    /\ IsGetSchema /\ task.name = "Basic"
    /\ task.prior.by = "getSchema"
    /\ task.now > task.prior.stamp
    /\ task.pc = "returned" /\ task.hit
    /\ frames[TopFrame].fetches = 0
    /\ task.result = <<task.prior>>
    /\ remoteRev > task.prior.fields

\* C9: a stored entry or the stored 'all' snapshot is returned only when
\* now - lastUpdate < ttl; when now - lastUpdate >= ttl, the boundary
\* included, the call is not answered from the cache and whatever it returns
\* was read from the remote during the call.
Thm_C9_StalenessIsCacheWide ==
    /\ task.hit => task.now - task.stampSeen < cacheExpiry
    /\ \A f \in FrameIds :
          frames[f].hit => frames[f].now - frames[f].stampSeen < cacheExpiry
    /\ (task.op # "none" /\ task.now - task.stampSeen >= cacheExpiry)
          => /\ ~task.hit
             /\ \A i \in DOMAIN Returned : Returned[i].at >= task.now

\* exactly ttl after the stamp, with the entry still stored: refetched
Wit_C9_RefetchAtBoundary ==
    /\ IsGetSchema
    /\ task.prior # NoSchema
    /\ task.stampSeen = task.prior.stamp
    /\ task.now - task.stampSeen = cacheExpiry
    /\ task.pc = "returned" /\ ~task.hit
    /\ task.result[1].at >= task.now

\* C10 as claimed: every schema handed out was read from the remote less
\* than 5 minutes before the call that returns it.
CE_C10_ServedDataYoungerThanWindow ==
    \A i \in DOMAIN Returned : task.now - Returned[i].at < cacheExpiry

\* the schema at position i of a list getAllSchemas assembled came out of the
\* cache, in the per-name call, while the stamp was fresh
ServedInside(i) ==
    LET fr == frames[task.names[i]]
    IN /\ task.op = "getAllSchemas" /\ ~task.hit
       /\ fr.hit
       /\ fr.result = Returned[i]
       /\ fr.now - fr.stampSeen < cacheExpiry

\* C10 (amended): every schema handed out was either read from the remote
\* during the returning call, or came out of the cache at a moment when
\* now - lastUpdate < 5 minutes, lastUpdate being the stamp of the latest
\* cache write of either kind (its own read may be older than 5 minutes).
Thm_C10_StalenessBoundedByStamp ==
    \A i \in DOMAIN Returned :
        \/ Returned[i].at >= task.now
        \/ task.hit /\ task.now - task.stampSeen < cacheExpiry
        \/ ServedInside(i)

\* a schema read 5 minutes or more before is served, the stamp having been
\* renewed by a later write
Wit_C10_OldEntryServed ==
    /\ IsGetSchema
    /\ task.pc = "returned" /\ task.hit
    /\ task.now - task.result[1].at >= cacheExpiry

\* ======================================================================
\* Claims about the cache and a changing remote (SpecRemoteNames)
\* ======================================================================
\* the call ended because the lookup of the names itself failed
NamesLookupFailed == task.pc = "thrown" /\ task.error \in ClientErrors

\* getSchema(name) raised "Note type not found", fetched nothing and left the
\* entry of the name and the stamp as they were
RaisedNotFound ==
    /\ task.pc = "thrown"
    /\ task.error = NoteTypeNotFound(task.name)
    /\ frames[TopFrame].fetches = 0
    /\ CacheGet(task.name) = task.prior
    /\ lastCacheUpdate = task.stampSeen

\* C11 as claimed: getSchema(name) for a name the remote does not list (the
\* remote answering the lookup) raises the invalid-parameter error naming
\* the type, fetches nothing and stores nothing.
CE_C11_AbsentNameAlwaysRaises ==
    ( /\ IsGetSchema /\ TaskFinished
      /\ task.name # "" /\ ~task.listed
      /\ ~NamesLookupFailed )
       => RaisedNotFound

\* C11 (amended): getSchema(name) for a name the remote does not list either
\* is answered from the cache, with the entry stored for the name, while
\* now - lastUpdate < 5 minutes (a note type deleted since it was cached), or
\* asks the remote for its names and then raises the invalid-parameter error
\* naming the type, having issued none of the three fetches and stored
\* nothing.
Thm_C11_AbsentNameRaisesUnlessCached ==
    ( /\ IsGetSchema /\ TaskFinished
      /\ task.name # "" /\ ~task.listed
      /\ ~NamesLookupFailed )
       => \/ /\ task.hit
             /\ task.prior # NoSchema
             /\ task.now - task.stampSeen < cacheExpiry
             /\ Returned = <<task.prior>>
             /\ frames[TopFrame].calls = 0
          \/ /\ ~task.hit
             /\ frames[TopFrame].calls = 1
             /\ RaisedNotFound

\* "Basic", cached earlier and deleted since, is asked for once the stamp is
\* stale: not found, and the old entry is still in the map
Wit_C11_DeletedNameNotFound ==
    /\ IsGetSchema /\ task.name = "Basic"
    /\ ~task.listed
    /\ task.prior # NoSchema
    /\ RaisedNotFound

\* ======================================================================
\* Claims about clearCache and failed fetches (SpecCache)
\* ======================================================================
\* the call was issued after a clearCache() that threw away an entry for its
\* name which would have been served at that moment
AfterClearOfFreshEntry ==
    /\ IsGetSchema
    /\ task.dropped.cleared
    /\ task.name \in task.dropped.fresh

\* C12: after clearCache() the map has no entry, there is no 'all' snapshot
\* and lastUpdate is 0; a getSchema(name) issued next, for a name whose entry
\* was stored and fresh when it was cleared, finds no entry, asks the remote
\* and returns only after the three fetches, with a schema read during the
\* call.
Thm_C12_ClearForcesRefetch ==
    /\ (task.pc = "idle" /\ task.dropped.cleared)
          => /\ modelSchemaCache = EmptyMap
             /\ allModelSchemasCache = NoSnapshot
             /\ lastCacheUpdate = 0
    /\ AfterClearOfFreshEntry
          => /\ task.prior = NoSchema
             /\ task.stampSeen = 0
             /\ ~task.hit
             /\ frames[TopFrame].calls >= 1
             /\ task.pc = "returned"
                   => /\ frames[TopFrame].fetches = 3
                      /\ Returned[1].at >= task.now

\* "Basic" is fetched, cleared at the same instant and asked for again: it
\* is fetched a second time
Wit_C12_RefetchedAfterClear ==
    /\ AfterClearOfFreshEntry
    /\ task.name = "Basic"
    /\ task.now = StartTime
    /\ task.pc = "returned"
    /\ frames[TopFrame].fetches = 3

IsGetAll == task.op = "getAllSchemas"

\* the per-name calls of the getAllSchemas in progress that were rejected
RejectedNames == {n \in Names(task.names) : frames[n].pc = "rejected"}

ApiFailure == McpError("InternalError", MsgUnavailable)

\* getAllSchemas passes from running to thrown in this step
GetAllFails == IsGetAll /\ task.pc # "thrown" /\ task'.pc = "thrown"

\* C13: when a per-name call of getAllSchemas is rejected (one of its three
\* fetches failed, the client's retries used up), getAllSchemas throws the
\* error of that call and hands no list to its caller; a list that is
\* returned holds the schema of every listed note type; and the step in
\* which getAllSchemas fails leaves the 'all' snapshot as it was.
Thm_C13_GetAllFailsAsAWhole ==
    /\ [](RejectedNames # {}
            => /\ task.pc = "thrown"
               /\ task.result = <<>>
               /\ \A n \in RejectedNames : task.error = frames[n].error)
    /\ []((IsGetAll /\ task.pc = "returned" /\ ~task.hit)
            => /\ \A n \in Names(task.names) : frames[n].pc = "resolved"
               /\ Len(task.result) = Len(task.names)
               /\ \A i \in DOMAIN task.names :
                     task.result[i].modelName = task.names[i])
    /\ [][GetAllFails => allModelSchemasCache' = allModelSchemasCache]_vars

\* getAllSchemas over two note types: the schema of one has been fetched,
\* the fetches of the other fail with the API error, the call throws that
\* error and there is no snapshot
Wit_C13_OneFetchFailsWithApiError ==
    /\ IsGetAll /\ task.pc = "thrown"
    /\ task.error = ApiFailure
    /\ task.result = <<>>
    /\ \E n \in RejectedNames :
          /\ frames[n].fetches = 3
          /\ frames[n].error = ApiFailure
    /\ \E n \in Names(task.names) : frames[n].pc = "resolved" /\ ~frames[n].hit
    /\ allModelSchemasCache = NoSnapshot

\* the three-way fan-out of activation f is rejected in this step
FanoutFails(f) == frames[f].pc = "fanout" /\ frames'[f].pc = "rejected"

\* C14: a getSchema(name) call whose fan-out of three fetches failed has
\* left the entry stored for name, and lastUpdate, as they were when it was
\* issued; and the step in which the fan-out of any getModelSchema
\* activation fails changes neither the map nor lastUpdate.
Thm_C14_FailedFanoutStoresNothing ==
    /\ []((IsGetSchema /\ task.pc = "thrown" /\ frames[TopFrame].fetches = 3)
            => /\ CacheGet(task.name) = task.prior
               /\ lastCacheUpdate = task.stampSeen)
    /\ [][\A f \in FrameIds :
             FanoutFails(f) => /\ modelSchemaCache' = modelSchemaCache
                               /\ lastCacheUpdate' = lastCacheUpdate]_vars

\* getSchema("Basic") finds its entry stale, refetches and the fan-out
\* fails: the old entry is still there
Wit_C14_StaleEntryKept ==
    /\ IsGetSchema /\ task.name = "Basic"
    /\ task.pc = "thrown"
    /\ frames[TopFrame].fetches = 3
    /\ task.prior # NoSchema
    /\ CacheGet("Basic") = task.prior

\* ======================================================================
\* Claims about what the client's operations raise (SpecRetry)
\* ======================================================================
NormalizedKinds == {"AnkiConnectionError", "AnkiTimeoutError", "AnkiApiError"}

\* every attempt of the finished operation failed
EveryAttemptFailed ==
    /\ call.log # <<>>
    /\ \A i \in DOMAIN call.log : ~call.log[i].ok

\* C15 as claimed: a finished public operation has returned the result of
\* its successful attempt, or has raised an error of one of the three kinds
\* (carrying that kind's message through wrapError); when every attempt
\* failed it has raised.
CE_C15_RaisesOneOfThreeKinds ==
    (call.wrapped /\ Finished)
       => /\ EveryAttemptFailed => call.pc = "thrown"
          /\ call.pc = "returned"
                => /\ call.log[Len(call.log)].ok
                   /\ call.result = ReturnValue(call.op, call.log[Len(call.log)].value)
          /\ call.pc = "thrown"
                => /\ call.lastError.name \in NormalizedKinds
                   /\ call.error = McpError("InternalError", call.lastError.message)

\* ======================================================================
\* Claims about the legacy transport call (SpecLegacy)
\* ======================================================================
\* the reply invokeAnki took its outcome from
Surfaced == IF legacy.outcome.sent = 2 THEN legacy.retry ELSE legacy.first

\* C16 as claimed: invokeAnki hands a result to its caller only when the
\* reply it took the result from is a response whose error is null; a
\* response carrying an error is raised.
CE_C16_NoResultWithError ==
    /\ legacy.outcome.pc = "returned"
          => /\ Surfaced.kind = "response"
             /\ Surfaced.error = Null
             /\ legacy.outcome.result = Surfaced.result
    /\ ( /\ legacy.outcome.pc # "idle"
         /\ Surfaced.kind = "response"
         /\ Surfaced.error # Null )
          => legacy.outcome.pc = "thrown"

\* ======================================================================
\* Claims about reading a note type resource (SpecCache)
\* ======================================================================
\* C17 as claimed: reading anki://note-types/{name} fails with the 'does not
\* exist' error only when the lookup found the name missing among the
\* remote's note types; when the lookup itself failed in the client, that
\* failure is what the reader gets.
CE_C17_DoesNotExistOnlyWhenMissing ==
    (IsGetSchema /\ task.pc = "thrown" /\ task.name # "")
       => /\ task.surfaced = NoteTypeDoesNotExist(task.name, task.error)
                => task.error = NoteTypeNotFound(task.name)
          /\ task.error \in ClientErrors => task.surfaced = task.error

\* ------------------------------------------------------------------ C18
ToolRaisedValidation == tool.pc = "failed" /\ tool.error.code = "InvalidParams"

CacheRaisedValidation ==
    IsGetSchema /\ task.pc = "thrown" /\ task.error.code = "InvalidParams"

\* the tool call lacks one of the arguments its tool requires
ArgumentMissing ==
    IF tool.name = "create_note"
    THEN tool.args.type = "" \/ tool.args.deck = "" \/ tool.args.fields = {}
    ELSE tool.args.id = 0 \/ tool.args.fields = {}

RequiredMessages ==
    { <<"Note type is required">>, <<"Deck name is required">>,
      <<"Fields are required">>, <<"Note ID is required">> }

\* the lookups createNote made before it read the model's names
DeckLookups ==
    { <<"getDeckNames", "getModelNames">>,
      <<"getDeckNames", "createDeck", "getModelNames">> }

NoteWrites == {"addNote", "updateNoteFields"}

\* C18 as claimed: a ValidationError of a tool or of the cache is raised
\* before any remote call of that operation is attempted.
CE_C18_ValidationBeforeAnyRemoteCall ==
    /\ ToolRaisedValidation => tool.remote = <<>>
    /\ CacheRaisedValidation => frames[TopFrame].calls = 0

\* C18 (amended): a ValidationError for a missing required argument is
\* raised before any remote call of the operation (in a tool, after the
\* connectivity probe of executeTool only); a ValidationError for a
\* reference that does not exist, or for a field the note type requires, is
\* raised after the lookups that establish it (getDeckNames, createDeck of a
\* deck that was missing, getModelNames, getModelFieldNames; notesInfo; the
\* cache's model names) and before any call that writes a note or fetches a
\* schema.
Thm_C18_ValidationBeforeWrites ==
    /\ ToolRaisedValidation =>
         /\ tool.probed
         /\ \A i \in DOMAIN tool.remote : tool.remote[i] \notin NoteWrites
         /\ IF ArgumentMissing
            THEN /\ tool.error.message \in RequiredMessages
                 /\ tool.remote = <<>>
            ELSE \/ /\ tool.error = NoteTypeNotFound(tool.args.type)
                    /\ tool.args.type \notin Names(remoteNames)
                    /\ tool.remote \in DeckLookups
                 \/ /\ tool.error.message[1] = "Missing required field: "
                    /\ tool.remote \in
                         { Append(l, "getModelFieldNames") : l \in DeckLookups }
                 \/ /\ tool.error.message[1] = "Note not found: "
                    /\ tool.remote = <<"notesInfo">>
    /\ CacheRaisedValidation =>
         /\ frames[TopFrame].fetches = 0
         /\ IF task.name = ""
            THEN frames[TopFrame].calls = 0
            ELSE /\ task.error = NoteTypeNotFound(task.name)
                 /\ frames[TopFrame].calls = 1

\* create_note for the note type "Nonexistent" into the missing deck
\* "Spanish": the deck has been created on the remote when "Note type not
\* found" is raised
Wit_C18_NotFoundAfterDeckCreated ==
    /\ ToolRaisedValidation
    /\ tool.error = NoteTypeNotFound("Nonexistent")
    /\ tool.remote = <<"getDeckNames", "createDeck", "getModelNames">>
    /\ "Spanish" \in remoteDecks

\* ------------------------------------------------------------------ C19
\* the request failed because the client operation it awaited failed, and
\* `cause` is the classified failure of that operation's last attempt
FailedOnCall == request.pc = "failed" /\ call.pc = "thrown"

\* C19: a request that fails for a connectivity problem shows the remediation
\* of that problem, in the probe and in the call alike: connection refused
\* shows 'start Anki / enable AnkiConnect', a collection-unavailable failure
\* shows 'close any open dialogs', a timeout its own message, and never the
\* raw text of the transport's exception.
CE_C19_FailureNamesItsRemediation ==
    FailedOnCall =>
      LET cause == call.lastError
          shown == request.error.message
      IN /\ cause.name = "AnkiConnectionError"
              => shown \in {MsgNotRunning, MsgFailedToConnect}
         /\ cause.name = "AnkiApiError" => shown = MsgUnavailable
         /\ cause.name = "AnkiTimeoutError" => shown = MsgTimedOut

\* ------------------------------------------------------------------ C20
\* the attempts of a call that failed, counted in its own log
OwnFailures(c) == Cardinality({i \in DOMAIN c.log : ~c.log[i].ok})

\* the backoff delays a call with n failed attempts has waited for
OwnDelays(c, n) ==
    [i \in 1..Min(n, c.maxRetries) |-> BackoffDelay(i - 1, retryTimeout)]

\* what a call is, told from the outcomes of its own attempts alone
OwnCourse(c) ==
    LET n == Len(c.log)
        failed == OwnFailures(c)
    IN /\ c.delays = OwnDelays(c, failed)
       /\ \A i \in 1..(n - 1) : ~c.log[i].ok
       /\ CASE c.pc = "idle" -> c = IdleCall
            [] c.pc = "attempt" -> failed = n /\ c.attempt = n /\ n <= c.maxRetries
            [] c.pc = "backoff" -> failed = n /\ c.attempt = n - 1 /\ n <= c.maxRetries
            [] c.pc = "returned" ->
                 /\ c.log[n].ok
                 /\ n <= c.maxRetries + 1
                 /\ c.result = ReturnValue(c.op, c.log[n].value)
                 /\ c.error = NoError
            [] c.pc = "thrown" ->
                 /\ failed = n
                 /\ n = c.maxRetries + 1
                 /\ c.error = CatchAndWrap(normalizeError(c.log[n].raw))

\* C20: client operations in flight together do not interfere.  Under every
\* interleaving of their attempts and backoff timers, each call's number of
\* attempts, its backoff delays and its outcome are those its own attempts'
\* outcomes give: it returns the value of its first attempt that succeeds,
\* after one delay per failed attempt, and it raises the classified error of
\* its own last attempt once its own maxRetries + 1 attempts have failed.  A
\* call whose first attempt the remote accepts completes without error.
Thm_C20_ConcurrentCallsIndependent ==
    \A s \in Slots :
       /\ OwnCourse(calls[s])
       /\ (calls[s].log # <<>> /\ calls[s].log[1].ok)
            => calls[s].pc = "returned" /\ Len(calls[s].log) = 1

\* createDeck, getModelNames and getDeckNames were all three in flight
\* together and each returned from its first attempt
Wit_C20_ThreeTogetherAllReturn ==
    /\ \A s \in 1..3 :
          /\ calls[s].op = ConcurrentOps[s]
          /\ calls[s].pc = "returned"
          /\ Len(calls[s].log) = 1
    /\ calls[1].result = Num("1651445861967")
    /\ peak >= 3

\* ------------------------------------------------------------------ C21
\* C21: when an update_note call that supplies tags has succeeded, the tags
\* of the note on the remote are the supplied tags, and the supplied fields
\* have been written.
CE_C21_UpdateNoteReplacesTags ==
    ( /\ tool.name = "update_note"
      /\ tool.pc = "done"
      /\ tool.args.hasTags )
       => /\ remoteNote.tags = tool.args.tags
          /\ tool.args.fields \subseteq remoteNote.written

\* ======================================================================
\* Claims about the mock remote and the test helpers (SpecMock)
\* ======================================================================
\* the step is the operation op of the mock or of the helpers
MockStep(op) == mockCall'.op = op

\* ------------------------------------------------------------------ C22
\* C22: in the mock remote, a createDeck request that names a deck (resp. a
\* createModel request that names a note type and carries its fields and
\* templates) fails with 'Deck already exists' (resp. 'Note type already
\* exists') and changes nothing when the name exists; when the name does not
\* exist it succeeds, adds exactly that name to the decks (resp. to the note
\* types) and changes nothing else.
Thm_C22_DuplicateNamesRejected ==
    /\ [][(MockStep("createDeck") /\ mockCall'.name # "") =>
            IF mockCall'.name \in mock.decks
            THEN /\ mockCall'.error =
                      InvalidParams(<<"Deck already exists: ", mockCall'.name>>)
                 /\ mock' = mock
            ELSE /\ mockCall'.error = NoError
                 /\ mock'.decks = mock.decks \cup {mockCall'.name}
                 /\ mock' = [mock EXCEPT !.decks = mock'.decks]]_vars
    /\ [][(MockStep("createModel") /\ mockCall'.complete) =>
            IF mockCall'.name \in mock.noteTypes
            THEN /\ mockCall'.error =
                      InvalidParams(<<"Note type already exists: ", mockCall'.name>>)
                 /\ mock' = mock
            ELSE /\ mockCall'.error = NoError
                 /\ mock'.noteTypes = mock.noteTypes \cup {mockCall'.name}
                 /\ mock' = [mock EXCEPT !.noteTypes = mock'.noteTypes]]_vars

\* "test_deck_1" was created and a second createDeck of it has been rejected;
\* the note type of the tests has been added to the four the mock starts with
Wit_C22_SecondCreateDeckRejected ==
    /\ mockCall.op = "createDeck"
    /\ mockCall.error = InvalidParams(<<"Deck already exists: ", "test_deck_1">>)
    /\ mock.decks = {DefaultDeck, "test_deck_1"}
    /\ mock.noteTypes = InitialNoteTypes \cup {TestNoteTypeName}

\* ------------------------------------------------------------------ C23
\* C23: in the mock remote, updateNoteFields for an id that has no note
\* fails with 'Note not found' and changes nothing; for an id that has a
\* note it succeeds, the note's fields become its earlier fields overwritten
\* by the supplied ones, and the note's id, tags, deck and model, every other
\* note, the decks and the note types stay as they were.
Thm_C23_UpdateOverwritesSuppliedFields ==
    [][MockStep("updateNoteFields") =>
         LET id == mockCall'.id
             supplied == mockCall'.fields
         IN IF ~HasNote(mock, id)
            THEN /\ mockCall'.error =
                      InvalidParams(<<"Note not found: ", ToString(id)>>)
                 /\ mock' = mock
            ELSE LET old == mock.notes[id]
                     new == mock'.notes[id]
                 IN /\ mockCall'.error = NoError
                    /\ DOMAIN new.fields = DOMAIN old.fields \cup DOMAIN supplied
                    /\ \A k \in DOMAIN supplied : new.fields[k] = supplied[k]
                    /\ \A k \in DOMAIN old.fields \ DOMAIN supplied :
                          new.fields[k] = old.fields[k]
                    /\ new = [old EXCEPT !.fields = new.fields]
                    /\ \A i \in NoteSlots \ {id} : mock'.notes[i] = mock.notes[i]
                    /\ mock' = [mock EXCEPT !.notes = mock'.notes]]_vars

\* of two Basic notes, the Front of note 1 has been overwritten: its Back
\* and note 2 are as they were added
Wit_C23_FrontOverwrittenBackKept ==
    /\ mockCall.op = "updateNoteFields" /\ mockCall.error = NoError
    /\ mockCall.id = 1
    /\ mock.notes[1].fields = [k \in {"Front", "Back"} |->
                                  IF k = "Front" THEN "y" ELSE "x"]
    /\ mock.notes[1].tags = <<"test">>
    /\ mock.notes[2].fields = BasicFields

\* ------------------------------------------------------------------ C24
\* the decks registered through createTestDeck
Tracked(tr) == {tr.decks[i] : i \in DOMAIN tr.decks}

\* C24: cleanupTestResources never throws; after it no deck registered
\* through createTestDeck is in the mock's decks, whether it had been created
\* in the mock or not, every note that was in such a deck is gone, the other
\* decks, the notes in them and the note types are as before, and the
\* tracking sets are empty.
Thm_C24_CleanupRemovesTrackedDecks ==
    [][MockStep("cleanupTestResources") =>
         LET tracked == Tracked(testResources)
         IN /\ mockCall'.error = NoError
            /\ testResources' = NoTestResources
            /\ mock'.decks = mock.decks \ tracked
            /\ \A i \in NoteSlots :
                  mock'.notes[i] = IF mock.notes[i].deckName \in tracked
                                   THEN NoNote ELSE mock.notes[i]
            /\ mock'.noteTypes = mock.noteTypes
            /\ mock'.nextNoteId = mock.nextNoteId]_vars

\* after a cleanup: the note added to the tracked deck "test_deck_1" is gone
\* with its deck, the note in "Default" is still there, nothing is tracked
Wit_C24_TestDeckAndItsNoteGone ==
    /\ mockCall.op = "cleanupTestResources" /\ mockCall.error = NoError
    /\ mock.nextNoteId = 3
    /\ \E i, j \in NoteSlots :
          /\ mock.notes[i] = NoNote
          /\ mock.notes[j].deckName = DefaultDeck
    /\ mock.decks = {DefaultDeck}
    /\ testResources = NoTestResources

\* ------------------------------------------------------------------ C25
\* the notes the remote holds
RemoteNotes == {i \in NoteSlots : mock.notes[i] # NoNote}

\* C25: for the first addNote / createDeck issued against the remote as it
\* starts, whatever requests and responses are lost: when the operation has
\* thrown the remote holds no note (resp. not the deck), and when it has
\* returned the remote holds exactly one note (resp. the deck).
CE_C25_OutcomeAgreesWithRemote ==
    opsStarted = 1 =>
       /\ (call.op = "addNote" /\ call.pc = "thrown") => RemoteNotes = {}
       /\ (call.op = "addNote" /\ call.pc = "returned") => Cardinality(RemoteNotes) = 1
       /\ (call.op = "createDeck" /\ call.pc = "thrown") => WrittenDeck \notin mock.decks
       /\ (call.op = "createDeck" /\ call.pc = "returned") => WrittenDeck \in mock.decks

\* ------------------------------------------------------------------ C26
InProgress == call.pc \in {"attempt", "backoff"}

\* C26: when every attempt eventually settles, an operation in progress
\* eventually returns or throws; it never makes more than maxRetries + 1
\* attempts or more than maxRetries backoff delays, and it ends with a value
\* and no error or with an error.
Thm_C26_RetryLoopTerminates ==
    /\ [](/\ Len(call.log) <= call.maxRetries + 1
          /\ Len(call.delays) <= call.maxRetries
          /\ call.pc = "returned" => call.error = NoError
          /\ call.pc = "thrown" => call.error # NoError)
    /\ InProgress ~> Finished

\* executeWithRetry with a budget of two retries has thrown after three
\* failed attempts and two delays
Wit_C26_BudgetSpentThenThrown ==
    /\ call.op = "executeWithRetry" /\ call.maxRetries = 2
    /\ call.pc = "thrown"
    /\ Len(call.log) = 3 /\ Len(call.delays) = 2

\* ------------------------------------------------------------------ C27
\* C27: an operation that has thrown made at least one attempt, and what it
\* throws is the normalization of the failure of its last attempt (passed
\* through the catch clause of a public operation), whatever the earlier
\* attempts failed with; the "Unknown error occurred" fallback is not what it
\* throws.
Thm_C27_LastFailureIsRaised ==
    call.pc = "thrown" =>
       /\ Len(call.log) >= 1
       /\ LET last == normalizeError(call.log[Len(call.log)].raw)
          IN call.error = IF call.wrapped THEN CatchAndWrap(last) ELSE last
       /\ call.error.message # MsgUnknown

\* connection refused, then a timeout: the timeout error is thrown
Wit_C27_RefusedThenTimedOut ==
    /\ call.op = "executeWithRetry" /\ call.pc = "thrown"
    /\ Len(call.log) = 2
    /\ Refused(call.log[1].raw)
    /\ call.log[2].raw = MkError("Error", <<SigEtimedout>>)
    /\ call.error = AnkiTimeoutError(MsgTimedOut)

\* ------------------------------------------------------------------ C28
\* the request reads a note type whose schema is in the cache and fresh
ReadsFreshEntry ==
    /\ request.kind = "ReadResource" /\ request.target \in NoteTypeUris
    /\ CacheGet(ModelNameOf(request.target)) # NoSchema
    /\ Fresh(clock, lastCacheUpdate)

\* the connectivity errors of the adapter's probe and of the handler's
ConnectivityErrors ==
    {McpError("InternalError", MsgFailedToConnect),
     McpError("InternalError", MsgNotRunning)}

\* C28: a read of a note type is answered only after both probes of this
\* very request succeeded, whatever earlier requests saw and whatever the
\* cache holds: once the adapter's probe of the request has failed the
\* request fails with the connectivity error without readResource being
\* invoked, and a request that has failed without getModelSchema having
\* thrown failed with a connectivity error.
Thm_C28_ProbedOnEveryRead ==
    request.target \in NoteTypeUris =>
       /\ request.probe = "failed" =>
             /\ request.pc = "failed"
             /\ request.error = McpError("InternalError", MsgFailedToConnect)
             /\ ~request.dispatched
             /\ Len(request.remote) = 1
       /\ request.pc \in {"getModelSchema", "replied"} =>
             /\ request.probe = "ok"
             /\ request.remote = <<RemoteCall("adapter", "checkConnection"),
                                   RemoteCall("handler", "checkConnection")>>
       /\ (request.pc = "failed" /\ request.error.code = "InternalError") =>
             request.error \in ConnectivityErrors

\* the second request reads "Basic", which the first one left in the cache
\* and is still fresh; the remote refuses the probe and the request fails
Wit_C28_FreshEntryNotServedWhenUnreachable ==
    /\ requests = 2
    /\ ReadsFreshEntry
    /\ request.target = "anki://note-types/Basic"
    /\ request.probe = "failed"
    /\ request.pc = "failed"

\* ------------------------------------------------------------------ C29
\* C29: the call issued next after a clearCache(), the clear having run while
\* the call before it was suspended on its fetches, is not answered from the
\* cache.
CE_C29_ClearInFlightForcesRefetch ==
    (task.pc # "idle" /\ task.dropped.cleared) => ~task.hit

\* ------------------------------------------------------------------ C30
\* the step is clearCache()
ClearStep ==
    /\ lastCacheUpdate' = 0
    /\ modelSchemaCache' = EmptyMap
    /\ allModelSchemasCache' = NoSnapshot

\* C30: no step other than clearCache() sets lastCacheUpdate to an earlier
\* time than the one it replaces.
CE_C30_StampNeverMovesBack ==
    [][ClearStep \/ lastCacheUpdate' >= lastCacheUpdate]_vars

\* ------------------------------------------------------------------ C31
\* what a schema says about its note type, the history kept with it aside
Content(schema) ==
    [modelName |-> schema.modelName, fields |-> schema.fields,
     templates |-> schema.templates, css |-> schema.css]

\* C31: when getAllSchemas has answered from its snapshot, every schema of
\* the list it returned has the content of the entry stored for the same
\* note type, which is what getSchema would return at that moment.
CE_C31_SnapshotAgreesWithEntries ==
    (IsGetAll /\ task.pc = "returned" /\ task.hit) =>
       \A i \in DOMAIN task.result :
          /\ CacheGet(task.result[i].modelName) # NoSchema
          /\ Content(CacheGet(task.result[i].modelName)) = Content(task.result[i])

\* ------------------------------------------------------------------ C32
\* the remote calls that change the collection
MutatingCalls == {"createDeck", "addNote", "updateNoteFields"}

\* create_note failed because the note type is unknown or because a field of
\* the model is missing from the arguments
CreateNoteRejected ==
    /\ tool.name = "create_note" /\ ToolRaisedValidation
    /\ \/ tool.error = NoteTypeNotFound(tool.args.type)
       \/ tool.error.message[1] = "Missing required field: "

\* C32: a create_note call that failed with "Note type not found" or
\* "Missing required field" has issued no mutating remote call: it has not
\* created the deck named in the request.
CE_C32_RejectedCreateNoteWritesNothing ==
    CreateNoteRejected =>
       \A i \in DOMAIN tool.remote : tool.remote[i] \notin MutatingCalls

\* ------------------------------------------------------------------ C33
\* the indices 0 .. n-1 in order
FirstIndices(n) == [k \in 1..n |-> k - 1]

\* notes are sent to the remote in input order, one result each, no result
\* for a note that was not sent, never more results than notes
InInputOrder(b) ==
    /\ b.sent = FirstIndices(Len(b.sent))
    /\ Len(b.results) = Len(b.sent)
    /\ Len(b.results) <= Len(b.notes)

\* the call stopped at its first failing note
StoppedAtFirstFailure(b) ==
    /\ \A k \in 1..(Len(b.results) - 1) : b.results[k].success
    /\ (b.results # <<>> /\ ~b.results[Len(b.results)].success) => b.pc = "returned"

\* C33 as claimed, for batch_create_notes in either server.
CE_C33_BatchStopsUnlessToldNot ==
    batch.pc \in {"note", "returned"} =>
       /\ InInputOrder(batch)
       /\ \A k \in DOMAIN batch.results : batch.results[k].index = k - 1
       /\ batch.stopOnError \in {"true", "omitted"} => StoppedAtFirstFailure(batch)
       /\ (batch.stopOnError = "false" /\ batch.pc = "returned")
             => Len(batch.results) = Len(batch.notes)
       /\ batch.pc = "returned" =>
             /\ batch.successful + batch.failed = Len(batch.results)
             /\ batch.total = Len(batch.notes)

\* C33 (amended): McpToolHandler.batchCreateNotes processes notes in input
\* order and records one result per processed note with its index; with
\* stopOnError true or omitted it stops at the first failing note (at most one
\* failure, the last result, no later note sent); with stopOnError false
\* every note is processed; successful + failed = number of results <= total.
\* The legacy server's batch_create_notes also works in input order, but
\* stops at the first failing note only when stopOnError is true (omitted it
\* processes every note), and its results carry no index and no counts.
Thm_C33_BatchStopsPerHandler ==
    batch.pc \in {"note", "returned"} =>
       /\ InInputOrder(batch)
       /\ IF batch.handler = "McpToolHandler"
          THEN /\ \A k \in DOMAIN batch.results : batch.results[k].index = k - 1
               /\ batch.stopOnError \in {"true", "omitted"}
                     => StoppedAtFirstFailure(batch)
               /\ (batch.stopOnError = "false" /\ batch.pc = "returned")
                     => Len(batch.results) = Len(batch.notes)
               /\ batch.pc = "returned" =>
                     /\ batch.successful = Successes(batch.results)
                     /\ batch.successful + batch.failed = Len(batch.results)
                     /\ batch.total = Len(batch.notes)
          ELSE /\ \A k \in DOMAIN batch.results : batch.results[k].index = NoIndex
               /\ batch.stopOnError = "true" => StoppedAtFirstFailure(batch)
               /\ (batch.stopOnError # "true" /\ batch.pc = "returned")
                     => Len(batch.results) = Len(batch.notes)
               /\ batch.total = NoIndex

\* McpToolHandler, stopOnError omitted, three notes of which the second is of
\* an unknown type: two results, the second a failure, the third note not sent
Wit_C33_StoppedAtSecondNote ==
    /\ batch.handler = "McpToolHandler" /\ batch.stopOnError = "omitted"
    /\ batch.pc = "returned"
    /\ Len(batch.notes) = 3
    /\ batch.sent = <<0, 1>>
    /\ batch.results[1].success /\ ~batch.results[2].success
    /\ batch.failed = 1 /\ batch.successful = 1 /\ batch.total = 3

\* ------------------------------------------------------------------ C34
\* C34: whatever executeTool raises is an McpError.
CE_C34_OnlyProtocolErrorsEscape ==
    tool.pc = "failed" => tool.error.name = "McpError"

\* ------------------------------------------------------------------ C35
\* C35: the createTool advertised for a note type, passed to executeTool, is
\* routed to createModelSpecificNote with the name of that note type.
CE_C35_CreateToolRoundTrips ==
    advert.pc = "routed" =>
       /\ advert.routed.handler = "createModelSpecificNote"
       /\ advert.routed.modelName = advert.modelName

\* ------------------------------------------------------------------ C36
\* the first request ended with one of the two codes invokeAnki retries on
FirstTimedOutOrReset ==
    legacy.first.kind = "axios" /\ legacy.first.code \in {"ETIMEDOUT", "ECONNRESET"}

\* the first request was refused, or answered with a status other than 200,
\* or answered with an error of the remote
FirstRefusedOrRejected ==
    \/ legacy.first.kind = "axios" /\ legacy.first.code = "ECONNREFUSED"
    \/ legacy.first.kind = "response" /\ legacy.first.status # 200
    \/ legacy.first.kind = "response" /\ legacy.first.error # Null

\* C36: a call of the legacy invokeAnki sends one request or two; it sends
\* the second exactly when the first failed with ETIMEDOUT or ECONNRESET; a
\* refused connection, a non-200 status and an error of the remote are
\* raised after the one request; a retry that fails raises the 'failed after
\* retry' error.
Thm_C36_RetriesOnceOnTimeoutOrReset ==
    legacy.outcome.pc # "idle" =>
       /\ legacy.outcome.sent \in {1, 2}
       /\ legacy.outcome.sent = 2 <=> FirstTimedOutOrReset
       /\ FirstRefusedOrRejected
             => legacy.outcome.pc = "thrown" /\ legacy.outcome.sent = 1
       /\ (FirstTimedOutOrReset /\ legacy.retry.kind # "response")
             => /\ legacy.outcome.pc = "thrown"
                /\ legacy.outcome.error = McpError("InternalError", MsgFailedAfterRetry)

\* the first request was reset, and the retry timed out
Wit_C36_RetryFailed ==
    /\ legacy.first = AxiosError("ECONNRESET")
    /\ legacy.retry = AxiosError("ETIMEDOUT")
    /\ legacy.outcome.pc = "thrown"
    /\ legacy.outcome.sent = 2

\* ------------------------------------------------------------------ C37
\* the note ids among what the remote matched, in the remote's order
MatchedIds ==
    LET items == search.found.items
        at == {i \in DOMAIN items : items[i].isNumber}
    IN [k \in 1..Cardinality(at) |->
          items[CHOOSE i \in at : Cardinality({j \in at : j <= i}) = k].id]

\* C37: search_notes reports as total the number of note ids matched; it asks
\* notesInfo for the first 50 of them at most, in the remote's order, and
\* returns the info of none but these; with nothing matched it does not call
\* notesInfo; limitApplied is true exactly when total is above 50.
Thm_C37_SearchReportsFirstFifty ==
    search.pc = "returned" =>
       /\ search.reply.total = Len(MatchedIds)
       /\ search.reply.limitApplied <=> search.reply.total > 50
       /\ Len(MatchedIds) = 0 => search.calls = <<"findNotes">>
       /\ Len(MatchedIds) > 0
             => /\ search.calls = <<"findNotes", "notesInfo">>
                /\ Len(search.asked) = Min(Len(MatchedIds), 50)
                /\ \A i \in DOMAIN search.asked : search.asked[i] = MatchedIds[i]
       /\ Len(search.reply.notes) <= 50
       /\ \A i \in DOMAIN search.reply.notes :
             search.reply.notes[i].noteId = MatchedIds[i]

\* more than 50 notes matched, newest first, and 50 were returned
Wit_C37_LimitApplied ==
    /\ search.pc = "returned"
    /\ search.reply.total = 51
    /\ search.reply.limitApplied
    /\ Len(search.reply.notes) = 50
    /\ search.reply.notes[1].noteId = 51

\* ------------------------------------------------------------------ C38
\* the ids listed in a deleteNotes request
Listed(ids) == {ids[i] : i \in DOMAIN ids}

\* C38 as claimed: deleteNotes(ids) of the mock either removes every listed
\* note and no other, or fails with 'Note not found' and leaves the store of
\* notes as it was.
CE_C38_DeleteNotesAllOrNothing ==
    [][\A ids \in DeleteRequests :
          MockDeleteNotes(ids) =>
             \/ /\ mockCall'.error = NoError
                /\ \A id \in NoteSlots :
                      HasNote(mock', id) <=> (HasNote(mock, id) /\ id \notin Listed(ids))
             \/ /\ mockCall'.error.code = "InvalidParams"
                /\ mock'.notes = mock.notes]_vars

====
